---- MODULE Spec2Model ----
(***************************************************************************)
(* Station session runtime of dimples: the server session (key,           *)
(* identifier, active flag, outbound queue), the station messenger and     *)
(* message processor, the handshake command processors of station and      *)
(* client, the client session state machine and the offline message store. *)
(*                                                                         *)
(* Messages are objects: the offline store, the queues and the dispatcher  *)
(* hold references to them, and a field set on a message (traces,          *)
(* recipients) is seen through every reference, as in the program.         *)
(***************************************************************************)
EXTENDS Integers, Sequences, FiniteSets, TLC

VARIABLES now, heap, sessKey, sessId, sessActive, sessLast, sessQueue, sessOpen,
          store, dispatched, push, logins, dispatcher, loading, sent, arrivals, calls, last,
          cliUser, cliState, cliKey, cliEnter, cliStation, gateStatus, c2s, s2c, cliFault,
          accepted

vars == <<now, heap, sessKey, sessId, sessActive, sessLast, sessQueue, sessOpen,
          store, dispatched, push, logins, dispatcher, loading, sent, arrivals, calls, last,
          cliUser, cliState, cliKey, cliEnter, cliStation, gateStatus, c2s, s2c, cliFault,
          accepted>>

sessVars == <<sessKey, sessId, sessActive, sessLast, sessQueue, sessOpen>>
cliVars == <<cliUser, cliState, cliKey, cliEnter, cliStation, gateStatus, c2s, s2c,
            cliFault, accepted>>

----------------------------------------------------------------------------
(* Bounds of the model *)

\* the clock takes the values 1..MaxTime
MaxTime == 3
\* number of packages the station receives in one run
MaxArrivals == 2
\* number of set_active / set_identifier / save calls in one run
MaxCalls == 3
\* number of tasks the Push Center gives to the services in one run
MaxHanded == 2

\* the messages passed to the dispatcher of dispatcher.py
MaxPassed == 3

----------------------------------------------------------------------------
(* Identifiers *)

None == "None"

\* the local station, a neighbor station, users, a bot, a group
LocalStation == "gsp-s001@station"
Neighbor == "gsp-s002@station"
Neighbor3 == "gsp-s003@station"
Alice == "alice@user"
Bob == "bob@user"
Mallory == "mallory@user"
Bot == "archivist@bot"
Bot2 == "assistant@bot"
Group == "chat@group"
\* well-known broadcast identifiers
StationANY == "station@anywhere"
ANYONE == "anyone@anywhere"
StationEVERY == "stations@everywhere"
EVERYONE == "everyone@everywhere"
ArchivistAnywhere == "archivist@anywhere"

Sessions == {"c1", "c2"}
Users == {Alice, Bob}

\* EntityType of an identifier
IdType(id) ==
    CASE id \in {LocalStation, Neighbor, Neighbor3} -> "STATION"
      [] id \in {Alice, Bob, Mallory} -> "USER"
      [] id \in {Bot, Bot2} -> "BOT"
      [] id = Group -> "GROUP"
      [] id \in {StationANY, ANYONE, ArchivistAnywhere} -> "ANY"
      [] id \in {StationEVERY, EVERYONE} -> "EVERY"

\* ID.is_broadcast: the address is 'anywhere' or 'everywhere'
IsBroadcast(id) == IdType(id) \in {"ANY", "EVERY"}
\* ID.is_group: the type has the group bit
IsGroup(id) == IdType(id) \in {"GROUP", "EVERY"}
\* ID.is_user
IsUser(id) == ~IsGroup(id)

----------------------------------------------------------------------------
(* Messages *)

\* a reliable message. sigOK: CommonMessenger.verify_message accepts it (the
\* sender's key is known and the signature matches). recipients: the IDs in
\* msg['recipients'], none when the field is absent. type: the content type
\* in the envelope, None when the field is absent. group: msg.group.
\* target, neighbor: msg['target'] and msg['neighbor'], None when absent
Msg(sender, receiver, sig) ==
    [sender |-> sender, receiver |-> receiver, signature |-> sig, sigOK |-> TRUE,
     traces |-> <<>>, recipients |-> {}, content |-> [cmd |-> "cipher"],
     type |-> "TEXT", group |-> None, target |-> None, neighbor |-> None]

\* handshake commands: HandshakeCommand.offer / ask / accepted
Hello(k) == [cmd |-> "handshake", title |-> "Hello world!", session |-> k]
Ask(k) == [cmd |-> "handshake", title |-> "DIM?", session |-> k]
Accepted(k) == [cmd |-> "handshake", title |-> "DIM!", session |-> k]

Range(q) == {q[i] : i \in 1..Len(q)}

\* The message objects. A positive reference o is a message that was saved
\* before the run: from Bob, with signature o. The objects made during the
\* run are kept in the heap under negative references.
Obj(h, o) == IF o \in DOMAIN h THEN h[o] ELSE Msg(Bob, Alice, o)

\* msg.get('signature')
SigOf(h, o) == IF o \in DOMAIN h THEN h[o].signature ELSE o

\* the reference of the next object
NewRef(h) == 0 - (Cardinality(DOMAIN h) + 1)

\* the heap with one more object
Alloc(h, m) == [o \in DOMAIN h \cup {NewRef(h)} |-> IF o \in DOMAIN h THEN h[o] ELSE m]

----------------------------------------------------------------------------
(* Offline store: ReliableMessageTable and MessageDatabase *)

\* page size of the reload loop
LIMIT == 1024

\* a table that caches only one page of messages
CACHE_LIMIT_one_page == LIMIT

\* ReliableMessageTable.CACHE_LIMIT
CACHE_LIMIT == 71680

\* get_range(start, limit, total): the range [start, end)
get_range(start, limit, total) ==
    LET s1 == IF start < 0
              THEN (IF start + total < 0 THEN 0 ELSE start + total)
              ELSE (IF start > total THEN total ELSE start)
        e1 == IF s1 + limit > total THEN total ELSE s1 + limit
    IN  <<s1, e1>>

\* ReliableMessageTable.reliable_messages: (slice, remaining)
table_reliable_messages(st, receiver, start, limit) ==
    LET messages == st[receiver]
        total == Len(messages)
        r == get_range(start, limit, total)
    IN  [messages |-> SubSeq(messages, r[1] + 1, r[2]), remaining |-> total - r[2]]

\* MessageDatabase.reliable_messages calls the table with the receiver only,
\* so the table's defaults start=0, limit=1024 apply whatever was asked
reliable_messages(st, receiver, start, limit) ==
    table_reliable_messages(st, receiver, 0, 1024)

\* find_message comparing the message objects instead of their signatures
find_message_by_reference(h, msg, messages) ==
    LET hits == {i \in 1..Len(messages) : messages[i] = msg}
    IN  IF hits = {} THEN -1
        ELSE (CHOOSE i \in hits : \A j \in hits : i <= j) - 1

\* find_message: the index (from 0) of the message with msg's signature, or -1
find_message(h, msg, messages) ==
    LET hits == {i \in 1..Len(messages) : SigOf(h, messages[i]) = SigOf(h, msg)}
    IN  IF hits = {} THEN -1
        ELSE (CHOOSE i \in hits : \A j \in hits : i <= j) - 1

\* cache_reliable_message putting the message at the head of the list
cache_reliable_message_head(h, st, msg, receiver) ==
    LET messages == st[receiver]
        n == Len(messages)
        kept == IF n > CACHE_LIMIT THEN SubSeq(messages, n - CACHE_LIMIT + 1, n) ELSE messages
    IN  IF find_message(h, msg, messages) >= 0
        THEN [st |-> st, ret |-> FALSE]
        ELSE [st |-> [st EXCEPT ![receiver] = <<msg>> \o kept], ret |-> TRUE]

\* ReliableMessageTable.cache_reliable_message: the new store and the result
cache_reliable_message(h, st, msg, receiver) ==
    LET messages == st[receiver]
        n == Len(messages)
        kept == IF n > CACHE_LIMIT THEN SubSeq(messages, n - CACHE_LIMIT + 1, n) ELSE messages
    IN  IF find_message(h, msg, messages) >= 0
        THEN [st |-> st, ret |-> FALSE]
        ELSE [st |-> [st EXCEPT ![receiver] = Append(kept, msg)], ret |-> TRUE]

\* ReliableMessageTable.remove_reliable_message: the new store and the result
remove_reliable_message(h, st, msg, receiver) ==
    LET messages == st[receiver]
        index == find_message(h, msg, messages)
    IN  IF index < 0
        THEN [st |-> st, ret |-> FALSE]
        ELSE [st |-> [st EXCEPT ![receiver] =
                        SubSeq(messages, 1, index) \o SubSeq(messages, index + 2, Len(messages))],
              ret |-> TRUE]

----------------------------------------------------------------------------
(* Outbound queue of a session: MessageQueue *)

\* priorities of departures: -1 urgent, 0 normal, 1 slower
Priorities == {-1, 0, 1}

\* MessageQueue: one first-in-first-out fleet per priority
EmptyQueue == [p \in Priorities |-> <<>>]

\* MessageQueue.append of each of msgs in turn, with one priority
QueueAppendAll(q, msgs, priority) == [q EXCEPT ![priority] = @ \o msgs]

\* BaseSession.queue_message_package
queue_message_package(q, msg, priority) == QueueAppendAll(q, <<msg>>, priority)

\* the order in which MessageQueue.next hands the messages out
QueueOrder(q) == q[-1] \o q[0] \o q[1]

\* the messages waiting in a queue
QueueRefs(q) == UNION {Range(q[p]) : p \in Priorities}

\* the number of messages waiting, per priority
QueueLens(q) == [p \in Priorities |-> Len(q[p])]

----------------------------------------------------------------------------
(* Server session: GateKeeper, BaseSession, ServerSession *)

\* a session as a value: the fields the operations read and write
Sess(s) ==
    [key |-> sessKey[s], id |-> sessId[s], active |-> sessActive[s],
     last |-> sessLast[s], queue |-> sessQueue[s]]

\* a timestamp argument: absent (None), or a number
NoWhen == [given |-> FALSE, t |-> 0]
When(t) == [given |-> TRUE, t |-> t]

\* set_active comparing with < : a timestamp equal to the recorded one wins
GateKeeper_set_active_strict(se, active, when, t) ==
    LET default == (~when.given) \/ when.t <= 0
        w == IF default THEN t ELSE when.t
    IN  IF (~default) /\ when.t < se.last
        THEN [se |-> se, ret |-> FALSE]
        ELSE IF se.active # active
             THEN [se |-> [se EXCEPT !.active = active, !.last = w], ret |-> TRUE]
             ELSE [se |-> se, ret |-> FALSE]

\* GateKeeper.set_active(active, when) at clock reading t
GateKeeper_set_active(se, active, when, t) ==
    LET default == (~when.given) \/ when.t <= 0
        w == IF default THEN t ELSE when.t
    IN  IF (~default) /\ when.t <= se.last
        THEN [se |-> se, ret |-> FALSE]
        ELSE IF se.active # active
             THEN [se |-> [se EXCEPT !.active = active, !.last = w], ret |-> TRUE]
             ELSE [se |-> se, ret |-> FALSE]

\* the loop of load_cached_messages, one iteration per page; v holds the
\* loop's variables start, total and the session's queue
RECURSIVE load_loop(_, _, _)
load_loop(st, id, v) ==
    LET page == reliable_messages(st, id, v.start, LIMIT)
        v1 == [start |-> v.start + LIMIT,
               total |-> v.total + Len(page.messages),
               queue |-> QueueAppendAll(v.queue, page.messages, 1)]
    IN  IF v1.total > CACHE_LIMIT THEN v1.queue
        ELSE IF page.remaining > 0 THEN load_loop(st, id, v1)
        ELSE v1.queue

\* a loop that is left after its first round
goes_on_never(v) == FALSE

\* the end of a round of the loop of load_cached_messages: the loop is left
\* by the break when more than CACHE_LIMIT messages were counted, and by its
\* condition when nothing remains
goes_on(v) == ~(v.total > CACHE_LIMIT) /\ v.remaining > 0

\* one round of the loop of load_cached_messages for a thread that other
\* threads interrupt between the rounds: a page is fetched, counted and queued
load_page(st, id, v) ==
    LET page == reliable_messages(st, id, v.start, LIMIT)
    IN  [start |-> v.start + LIMIT, total |-> v.total + Len(page.messages),
         queue |-> QueueAppendAll(v.queue, page.messages, 1),
         remaining |-> page.remaining]

\* load_cached_messages(session)
load_cached_messages(se, st) ==
    IF se.id = None \/ ~se.active
    THEN se
    ELSE [se EXCEPT !.queue = load_loop(st, se.id, [start |-> 0, total |-> 0, queue |-> se.queue])]

\* ServerSession.set_active
ServerSession_set_active(se, active, when, t, st) ==
    LET r == GateKeeper_set_active(se, active, when, t)
    IN  IF r.ret
        THEN [se |-> load_cached_messages(r.se, st), ret |-> TRUE]
        ELSE r

\* set_identifier that binds a session once and ignores a later identifier
BaseSession_set_identifier_once(se, identifier) ==
    IF se.id = None
    THEN [se |-> [se EXCEPT !.id = identifier], ret |-> TRUE]
    ELSE [se |-> se, ret |-> FALSE]

\* BaseSession.set_identifier: the identifier setter of the session assigns
\* whatever it is given; the result tells ServerSession.set_identifier
\* whether the identifier changed
BaseSession_set_identifier(se, identifier) ==
    IF se.id # identifier
    THEN [se |-> [se EXCEPT !.id = identifier], ret |-> TRUE]
    ELSE [se |-> se, ret |-> FALSE]

\* ServerSession.set_identifier
ServerSession_set_identifier(se, identifier, st) ==
    LET r == BaseSession_set_identifier(se, identifier)
    IN  IF r.ret
        THEN [se |-> load_cached_messages(r.se, st), ret |-> TRUE]
        ELSE r

\* write a session value back into the state
PutSess(s, se) ==
    /\ sessId' = [sessId EXCEPT ![s] = se.id]
    /\ sessActive' = [sessActive EXCEPT ![s] = se.active]
    /\ sessLast' = [sessLast EXCEPT ![s] = se.last]
    /\ sessQueue' = [sessQueue EXCEPT ![s] = se.queue]
    /\ UNCHANGED sessKey

\* the fields of a session before a call, kept for the properties
Pre(s) ==
    [id |-> sessId[s], active |-> sessActive[s], last |-> sessLast[s],
     qlen |-> QueueLens(sessQueue[s])]

----------------------------------------------------------------------------
(* The Push Center: a list of waiting tasks, a draining loop, and threads  *)
(* that offer notifications                                                *)

\* threads that call push_notification
Producers == {"p1", "p2"}

\* a task that waits since before the run; such tasks are not told apart,
\* they are the head of the list and the center counts them
OldTask == [n |-> 0, msg |-> 0]

\* PushCenter.__init__. backlog, tasks: the old tasks and, behind them, the
\* tasks appended in the run, numbered in the order of their appending;
\* handed: the tasks given to the services; counted: the count a thread has
\* read inside push_notification, -1 outside of it
EmptyCenter ==
    [backlog |-> 0, tasks |-> <<>>, handed |-> <<>>, made |-> 0,
     counted |-> [p \in Producers |-> -1]]

\* PushCenter.__count
PushCenter_count(c) == c.backlog + Len(c.tasks)

\* PushCenter.__append
PushCenter_append(c, msg) ==
    [c EXCEPT !.tasks = Append(@, [n |-> c.made + 1, msg |-> msg]), !.made = @ + 1]

\* PushCenter.__pop, the list not being empty
PushCenter_pop(c) ==
    IF c.backlog > 0
    THEN [c |-> [c EXCEPT !.backlog = @ - 1], task |-> OldTask]
    ELSE [c |-> [c EXCEPT !.tasks = Tail(@)], task |-> Head(c.tasks)]

\* PushCenter.process, the list not being empty: the task is given to every
\* service
PushCenter_process(c) ==
    [PushCenter_pop(c).c EXCEPT !.handed = Append(@, PushCenter_pop(c).task)]

\* push_notification returns False without appending
too_long(count) == count > 100000

\* PushCenter.push_notification called by a thread that no other thread
\* interrupts
PushCenter_push_notification(c, msg) ==
    IF too_long(PushCenter_count(c)) THEN c ELSE PushCenter_append(c, msg)

\* a thread enters push_notification and reads the count under the lock
OfferCount(p) ==
    /\ calls < MaxCalls
    /\ push.counted[p] = -1
    /\ LET count == PushCenter_count(push)
       IN  /\ push' = IF too_long(count) THEN push ELSE [push EXCEPT !.counted[p] = count]
           /\ last' = [op |-> "count", producer |-> p, count |-> count,
                       ret |-> ~too_long(count)]
    /\ calls' = calls + 1
    /\ UNCHANGED <<now, heap, sessVars, store, dispatched, logins, dispatcher, loading, sent, arrivals, cliVars>>

\* the thread takes the lock again and appends its task
OfferAppend(p) ==
    /\ push.counted[p] # -1
    /\ push' = [PushCenter_append(push, 0) EXCEPT !.counted[p] = -1]
    /\ last' = [op |-> "append", producer |-> p, count |-> push.counted[p], ret |-> TRUE]
    /\ UNCHANGED <<now, heap, sessVars, store, dispatched, logins, dispatcher, loading, sent, arrivals, calls, cliVars>>

\* one round of the draining loop that finds a task
Process ==
    /\ PushCenter_count(push) > 0
    /\ Len(push.handed) < MaxHanded
    /\ push' = PushCenter_process(push)
    /\ last' = [op |-> "process"]
    /\ UNCHANGED <<now, heap, sessVars, store, dispatched, logins, dispatcher, loading, sent, arrivals, calls, cliVars>>

----------------------------------------------------------------------------
(* Initial state *)

\* the users a login command can be stored for
LoginKeys == {Alice, Bob}

\* the station named by the login command stored for each user; no command
\* is stored at the start
NoLogins == [u \in LoginKeys |-> None]

\* no session within the loop of load_cached_messages. on: the thread is
\* within the loop; id, start, total, remaining: the loop's variables
NoRound == [on |-> FALSE, id |-> None, start |-> 0, total |-> 0, remaining |-> 1]
NotLoading == [s \in Sessions |-> NoRound]

\* the session threads that call the dispatcher
Threads == {"t1", "t2"}

\* the dispatcher after construction, no thread within deliver. messages:
\* Dispatcher.__messages; calling: the message, if any, a thread is within deliver
\* with, after the check of the sender; passed, appended, taken: the messages
\* that were passed to deliver, appended to the list and taken from it by
\* process, in this order
IdleDispatcher ==
    [messages |-> <<>>, calling |-> [t \in Threads |-> <<>>],
     passed |-> <<>>, appended |-> <<>>, taken |-> <<>>]

\* receivers that own a list in the offline store
StoreKeys == {Alice, Bob, Bot, Bot2, Neighbor, LocalStation, Group}

\* an offline list of n messages saved in the order 1..n, as a sequence
StoredList(n) == <<>> \o [i \in 1..n |-> i]

EmptyStore == [r \in StoreKeys |-> <<>>]

\* ServerSession.__init__, GateKeeper.__init__, BaseSession.__init__: a fresh
\* session has its generated key, no identifier and is inactive since time 0
InitSessions ==
    /\ sessKey = [s \in Sessions |-> IF s = "c1" THEN "K1" ELSE "K2"]
    /\ sessId = [s \in Sessions |-> None]
    /\ sessActive = [s \in Sessions |-> FALSE]
    /\ sessLast = [s \in Sessions |-> 0]
    /\ sessQueue = [s \in Sessions |-> EmptyQueue]
    /\ sessOpen = [s \in Sessions |-> TRUE]

InitStation ==
    /\ now = 1
    /\ heap = <<>>
    /\ dispatched = <<>>
    /\ push = EmptyCenter
    /\ logins = NoLogins
    /\ dispatcher = IdleDispatcher
    /\ loading = NotLoading
    /\ sent = <<>>
    /\ arrivals = 0
    /\ calls = 0
    /\ last = [op |-> "init"]

\* the user of the client, set by Terminal.connect
ClientUser == Alice

\* the client after Terminal.connect
InitClient ==
    /\ cliState = "default"
    /\ cliKey = None
    /\ cliUser = ClientUser
    /\ cliEnter = 1
    /\ cliStation = StationANY
    /\ gateStatus = "init"
    /\ c2s = <<>>
    /\ s2c = <<>>
    /\ cliFault = FALSE
    /\ accepted = {}

----------------------------------------------------------------------------
(* Operations on a server session *)

\* time.time() moves on
Tick ==
    /\ now < MaxTime
    /\ now' = now + 1
    /\ UNCHANGED <<heap, sessVars, store, dispatched, push, logins, dispatcher, loading, sent, arrivals, calls, last, cliVars>>

\* the timestamps a caller may pass: none, zero, or any clock value
Whens == {NoWhen} \cup {When(t) : t \in 0..MaxTime}

\* session.set_active(active, when)
SetActive(s, active, when) ==
    /\ calls < MaxCalls
    /\ sessOpen[s]
    /\ LET r == ServerSession_set_active(Sess(s), active, when, now, store)
       IN  /\ PutSess(s, r.se)
           /\ last' = [op |-> "set_active", s |-> s, active |-> active, when |-> when,
                       t |-> now, pre |-> Pre(s), ret |-> r.ret]
    /\ calls' = calls + 1
    /\ UNCHANGED <<now, heap, sessOpen, store, dispatched, push, logins, dispatcher, loading, sent, arrivals, cliVars>>

\* session.set_identifier(identifier)
SetIdentifier(s, identifier) ==
    /\ calls < MaxCalls
    /\ sessOpen[s]
    /\ LET r == ServerSession_set_identifier(Sess(s), identifier, store)
       IN  /\ PutSess(s, r.se)
           /\ last' = [op |-> "set_identifier", s |-> s, identifier |-> identifier,
                       pre |-> Pre(s), ret |-> r.ret]
    /\ calls' = calls + 1
    /\ UNCHANGED <<now, heap, sessOpen, store, dispatched, push, logins, dispatcher, loading, sent, arrivals, cliVars>>

\* the messages saved while the model runs: two that may be stored already
\* and one that is new to every list
SaveRefs == {1, 2, LIMIT + 2}

\* db.cache_reliable_message(msg, receiver)
Save(receiver, msg) ==
    /\ calls < MaxCalls
    /\ LET r == cache_reliable_message(heap, store, msg, receiver)
       IN  /\ store' = r.st
           /\ last' = [op |-> "save", receiver |-> receiver, msg |-> msg, ret |-> r.ret]
    /\ calls' = calls + 1
    /\ UNCHANGED <<now, heap, sessVars, dispatched, push, logins, dispatcher, loading, sent, arrivals, cliVars>>

----------------------------------------------------------------------------
(* Specification of set_active: any sequence of calls on the sessions *)

InitActive ==
    /\ InitSessions /\ InitStation /\ InitClient
    /\ store = EmptyStore

NextActive ==
    \/ Tick
    \/ \E s \in Sessions, active \in BOOLEAN, when \in Whens : SetActive(s, active, when)

SpecActive == InitActive /\ [][NextActive]_vars

----------------------------------------------------------------------------
(* Specification of the reload of offline messages *)

\* offline lists a receiver can have when a session comes up: none, a few,
\* one page, and one message more than a page
StoredCounts == {0, 2, LIMIT, LIMIT + 1}

InitReload ==
    /\ InitSessions /\ InitStation /\ InitClient
    /\ \E n \in StoredCounts :
         store = [EmptyStore EXCEPT ![Alice] = StoredList(n)]

NextReload ==
    \/ \E s \in Sessions, active \in BOOLEAN : SetActive(s, active, NoWhen)
    \/ \E s \in Sessions, u \in Users : SetIdentifier(s, u)
    \/ \E u \in Users, o \in SaveRefs : Save(u, o)

SpecReload == InitReload /\ [][NextReload]_vars

----------------------------------------------------------------------------
(* Specification of the offline store: messages are saved, removed and     *)
(* fetched; some of them are copies that arrive again as new objects       *)

\* db.remove_reliable_message(msg, receiver)
Remove(receiver, msg) ==
    /\ calls < MaxCalls
    /\ LET r == remove_reliable_message(heap, store, msg, receiver)
       IN  /\ store' = r.st
           /\ last' = [op |-> "remove", receiver |-> receiver, msg |-> msg, ret |-> r.ret]
    /\ calls' = calls + 1
    /\ UNCHANGED <<now, heap, sessVars, dispatched, push, logins, dispatcher, loading, sent, arrivals, cliVars>>

\* db.reliable_messages(receiver, start, limit)
Fetch(receiver, start, limit) ==
    /\ calls < MaxCalls
    /\ LET r == reliable_messages(store, receiver, start, limit)
       IN  last' = [op |-> "fetch", receiver |-> receiver, start |-> start, limit |-> limit,
                    messages |-> r.messages, remaining |-> r.remaining]
    /\ calls' = calls + 1
    /\ UNCHANGED <<now, heap, sessVars, store, dispatched, push, logins, dispatcher, loading, sent, arrivals, cliVars>>

\* the messages that arrive again: objects with the signatures 1 and 2
Copies == [o \in {-1, -2} |-> Msg(Bob, Alice, 0 - o)]

\* the messages saved and removed: stored ones, their copies, a new one
StoreRefs == {1, 2, 5, -1, -2}

\* the ranges asked for
FetchStarts == {-4, -1, 0, 1, 2, 4}
FetchLimits == {1, 2, LIMIT}

\* lengths of the list the receiver starts with
SmallCounts == {0, 1, 3}

InitStore ==
    /\ InitSessions /\ InitClient
    /\ now = 1
    /\ heap = Copies
    /\ dispatched = <<>>
    /\ push = EmptyCenter
    /\ logins = NoLogins
    /\ dispatcher = IdleDispatcher
    /\ loading = NotLoading
    /\ sent = <<>>
    /\ arrivals = 0
    /\ calls = 0
    /\ last = [op |-> "init"]
    /\ \E n \in SmallCounts : store = [EmptyStore EXCEPT ![Alice] = StoredList(n)]

NextStore ==
    \/ \E o \in StoreRefs : Save(Alice, o)
    \/ \E o \in StoreRefs : Remove(Alice, o)
    \/ \E start \in FetchStarts, limit \in FetchLimits : Fetch(Alice, start, limit)

SpecStore == InitStore /\ [][NextStore]_vars

----------------------------------------------------------------------------
(* Specification of the reload running beside other threads: a session of  *)
(* the receiver is set active and loads page after page, while messages    *)
(* for the receiver are saved and removed. The thread of the session goes  *)
(* on with its loop                                                        *)

\* ServerSession.set_active(True) up to the loop of load_cached_messages
ReloadEnter(s) ==
    /\ sessOpen[s]
    /\ ~loading[s].on
    /\ LET r == GateKeeper_set_active(Sess(s), TRUE, NoWhen, now)
       IN  /\ r.ret
           /\ r.se.id # None
           /\ sessActive' = [sessActive EXCEPT ![s] = r.se.active]
           /\ sessLast' = [sessLast EXCEPT ![s] = r.se.last]
           /\ loading' = [loading EXCEPT ![s] = [NoRound EXCEPT !.on = TRUE,
                                                                !.id = r.se.id]]
    /\ last' = [op |-> "reload_enter", s |-> s]
    /\ UNCHANGED <<now, heap, sessKey, sessId, sessQueue, sessOpen, store, dispatched,
                   push, logins, dispatcher, sent, arrivals, calls, cliVars>>

\* one round of the loop of load_cached_messages; the loop is left when more
\* than CACHE_LIMIT messages were counted, or when nothing remains
ReloadPage(s) ==
    /\ loading[s].on
    /\ LET v == load_page(store, loading[s].id,
                          [start |-> loading[s].start, total |-> loading[s].total,
                           queue |-> sessQueue[s]])
       IN  /\ sessQueue' = [sessQueue EXCEPT ![s] = v.queue]
           /\ loading' = [loading EXCEPT ![s] =
                             [on |-> goes_on(v),
                              id |-> loading[s].id, start |-> v.start,
                              total |-> v.total, remaining |-> v.remaining]]
    /\ last' = [op |-> "reload_page", s |-> s]
    /\ UNCHANGED <<now, heap, sessKey, sessId, sessActive, sessLast, sessOpen, store,
                   dispatched, push, logins, dispatcher, sent, arrivals, calls, cliVars>>

InitReloading ==
    /\ InitStation /\ InitClient
    /\ sessKey = [s \in Sessions |-> IF s = "c1" THEN "K1" ELSE "K2"]
    /\ sessId = [s \in Sessions |-> IF s = "c1" THEN Alice ELSE None]
    /\ sessActive = [s \in Sessions |-> FALSE]
    /\ sessLast = [s \in Sessions |-> 0]
    /\ sessQueue = [s \in Sessions |-> EmptyQueue]
    /\ sessOpen = [s \in Sessions |-> TRUE]
    /\ \E n \in StoredCounts :
         store = [EmptyStore EXCEPT ![Alice] = StoredList(n)]

NextReloading ==
    \/ ReloadEnter("c1")
    \/ ReloadPage("c1")
    \/ Save(Alice, LIMIT + 2)
    \/ Remove(Alice, 1)

SpecReloading == InitReloading /\ [][NextReloading]_vars /\ WF_vars(ReloadPage("c1"))

----------------------------------------------------------------------------
(* Specification of the overflow of the offline store: the list of a       *)
(* receiver is long, and one message after the other is saved              *)

\* numbers of messages saved for the receiver before: 70 000, one more, the
\* limit, and one more
OverflowCounts == {70000, 70001, CACHE_LIMIT, CACHE_LIMIT + 1}

\* the list of a receiver after the messages 1..n were saved in this order:
\* each save trims the list to CACHE_LIMIT messages and appends the new one
SavedList(n) ==
    LET k == IF n > CACHE_LIMIT + 1 THEN CACHE_LIMIT + 1 ELSE n
    IN  <<>> \o [i \in 1..k |-> n - k + i]

\* the number of messages saved so far: they are numbered in the order of
\* their saving, and the last one saved is the last of the list
SavedCount == IF store[Alice] = <<>> THEN 0 ELSE store[Alice][Len(store[Alice])]

InitOverflow ==
    /\ InitSessions /\ InitStation /\ InitClient
    /\ \E n \in OverflowCounts : store = [EmptyStore EXCEPT ![Alice] = SavedList(n)]

\* the next message is saved, the last one is saved again, a page is fetched
NextOverflow ==
    \/ Save(Alice, SavedCount + 1)
    \/ Save(Alice, SavedCount)
    \/ \E start \in {-1, 0, LIMIT}, limit \in {1, LIMIT} : Fetch(Alice, start, limit)

SpecOverflow == InitOverflow /\ [][NextOverflow]_vars

----------------------------------------------------------------------------
(* Specification of the Push Center: two threads offer, the loop drains *)

\* tasks waiting when the run starts
Backlogs == {0, 99999, 100000, 100001}

InitPush ==
    /\ InitSessions /\ InitClient
    /\ now = 1
    /\ heap = <<>>
    /\ store = EmptyStore
    /\ dispatched = <<>>
    /\ sent = <<>>
    /\ arrivals = 0
    /\ calls = 0
    /\ last = [op |-> "init"]
    /\ \E b \in Backlogs : push = [EmptyCenter EXCEPT !.backlog = b]
    /\ logins = NoLogins
    /\ dispatcher = IdleDispatcher
    /\ loading = NotLoading

NextPush ==
    \/ \E p \in Producers : OfferCount(p)
    \/ \E p \in Producers : OfferAppend(p)
    \/ Process

SpecPush == InitPush /\ [][NextPush]_vars

----------------------------------------------------------------------------
(* The station: everything its handlers read and write, as one value *)

World ==
    [heap |-> heap, sess |-> [s \in Sessions |-> Sess(s)], store |-> store,
     dispatched |-> dispatched, push |-> push, logins |-> logins,
     dispatcher |-> dispatcher]

PutWorld(w) ==
    /\ heap' = w.heap
    /\ sessId' = [s \in Sessions |-> w.sess[s].id]
    /\ sessActive' = [s \in Sessions |-> w.sess[s].active]
    /\ sessLast' = [s \in Sessions |-> w.sess[s].last]
    /\ sessQueue' = [s \in Sessions |-> w.sess[s].queue]
    /\ store' = w.store
    /\ dispatched' = w.dispatched
    /\ push' = w.push
    /\ logins' = w.logins
    /\ dispatcher' = w.dispatcher
    /\ UNCHANGED <<sessKey, sent, loading>>

\* contents the station answers with
Receipt == [cmd |-> "receipt"]
Text == [cmd |-> "text"]

\* the station's block list
BlockList == {Mallory}

\* the neighbor stations of the provider; the list holds the station itself
AllNeighbors == {LocalStation, Neighbor}

\* AnsCommandProcessor.ans_id(name): the bot registered under a name
ans_id(receiver) == IF receiver = ArchivistAnywhere THEN Bot ELSE None

\* block_filter.is_blocked(msg)
is_blocked(m) == m.sender \in BlockList

\* Filter.check_traced appending the station whether or not it is there
check_traced_append(h, o) ==
    [heap |-> [h EXCEPT ![o].traces = Append(@, LocalStation)],
     ret |-> LocalStation \in Range(h[o].traces)]

\* Filter.check_traced(msg): true when the station is in msg['traces'] already,
\* otherwise the station is appended to them
check_traced(h, o) ==
    IF LocalStation \in Range(h[o].traces)
    THEN [heap |-> h, ret |-> TRUE]
    ELSE [heap |-> [h EXCEPT ![o].traces = Append(@, LocalStation)], ret |-> FALSE]

\* Filter.trusted_sender(sender): the session's own user, or a neighbor station
trusted_sender(se, sender) ==
    \/ se.id # None /\ se.id = sender
    \/ sender \in AllNeighbors \ {LocalStation}

\* a verification that accepts every message
CommonMessenger_verify_message_any(m) == TRUE

\* CommonMessenger.verify_message: receiver and sender are ready and the
\* signature matches the sender's key
CommonMessenger_verify_message(m) == m.sigOK

\* CommonMessenger.send_content on session s: the content is packed into a
\* message from the station and put into the session's waiting queue
send_content(w, s, receiver, content) ==
    LET o == NewRef(w.heap)
        m == [Msg(LocalStation, receiver, o) EXCEPT !.content = content]
    IN  [w EXCEPT !.heap = Alloc(@, m),
                  !.sess[s].queue = queue_message_package(@, o, 0)]

\* send_content for each of the responses in turn
RECURSIVE send_contents(_, _, _, _)
send_contents(w, s, receiver, responses) ==
    IF responses = <<>> THEN w
    ELSE send_contents(send_content(w, s, receiver, Head(responses)), s, receiver,
                       Tail(responses))

\* SessionCenter.active_sessions(identifier)
active_sessions(w, identifier) ==
    {s \in Sessions : w.sess[s].id = identifier /\ w.sess[s].active}

\* save_message(msg, receiver, database) of the delivers: a message from or
\* for a station is not saved
save_message(h, st, o, receiver) ==
    IF IdType(Obj(h, o).sender) = "STATION" \/ IdType(receiver) = "STATION"
    THEN [st |-> st, ret |-> FALSE]
    ELSE cache_reliable_message(h, st, o, receiver)

\* session_push(msg, receiver): the message is sent on every active session of
\* the receiver, that is put into its waiting queue with the normal priority;
\* the result counts the sessions
session_push(w, o, receiver) ==
    LET online == active_sessions(w, receiver)
    IN  [w |-> [w EXCEPT !.sess = [s \in Sessions |->
                    IF s \in online
                    THEN [w.sess[s] EXCEPT !.queue = queue_message_package(@, o, 0)]
                    ELSE w.sess[s]]],
         cnt |-> Cardinality(online)]

\* what _push_message returns after session_push: the number of sessions
\* the message was pushed to, or -1 when there is none
push_result(p) == [w |-> p.w, cnt |-> IF p.cnt > 0 THEN p.cnt ELSE -1]

\* the sessions of the center that are active and bound to the identifier,
\* in the order in which the set is run through
active_in_order(w, identifier, order) ==
    SelectSeq(order, LAMBDA s : w.sess[s].id = identifier /\ w.sess[s].active)

\* push_once(msg, sessions): the message is sent on the first session, with
\* priority 1
push_once(w, o, sessions) ==
    IF sessions = <<>> THEN [w |-> w, ret |-> FALSE]
    ELSE [w |-> [w EXCEPT !.sess[Head(sessions)].queue = queue_message_package(@, o, 1)],
          ret |-> TRUE]

\* msg['target'] = str(target)
set_target(w, o, target) == [w EXCEPT !.heap[o].target = target]

\* push_twice writing the target before it tries the neighbor
push_twice_target_first(w, o, target, roaming, bridge, order) ==
    IF active_in_order(w, roaming, order) # <<>>
    THEN push_once(set_target(w, o, target), o, active_in_order(w, roaming, order))
    ELSE push_once(set_target(w, o, target), o, active_in_order(w, bridge, order))

\* push_twice(msg, target, roaming, bridge): the sessions of the roaming
\* station first; when there is none the target is written into the message
\* and the sessions of the bridge are tried
push_twice(w, o, target, roaming, bridge, order) ==
    IF active_in_order(w, roaming, order) # <<>>
    THEN push_once(w, o, active_in_order(w, roaming, order))
    ELSE push_once(set_target(w, o, target), o, active_in_order(w, bridge, order))

\* get_roaming_station(receiver, database): the station of the login command
\* stored for the receiver
get_roaming_station(w, receiver) ==
    IF receiver \in LoginKeys THEN w.logins[receiver] ELSE None

\* DefaultRoamer.roam_message(msg, receiver)
DefaultRoamer_roam_message(w, o, receiver, order) ==
    LET roaming == IF IdType(receiver) = "STATION" THEN receiver
                   ELSE get_roaming_station(w, receiver)
    IN  IF roaming = None \/ roaming = LocalStation THEN [w |-> w, ret |-> FALSE]
        ELSE push_twice(w, o, receiver, roaming, LocalStation, order)

\* the order in which the session center hands out its sessions
SessionOrder == <<"c1", "c2">>

\* roamer_deliver(msg, receiver)
roamer_deliver(w, o, receiver) == DefaultRoamer_roam_message(w, o, receiver, SessionOrder)

\* what _push_message returns after the roamer: 0 when the message was
\* redirected, -1 otherwise
roam_result(r) == [w |-> r.w, cnt |-> IF r.ret THEN 0 ELSE -1]

\* step 2 of _push_message, p being the result of session_push: when no
\* session took the message the roamer is tried
push_or_roam(p, o, receiver) ==
    IF p.cnt > 0 THEN p ELSE roam_result(roamer_deliver(p.w, o, receiver))

\* build_message(sender, receiver, group, msg_type, facebook): whether a text
\* is built for the type
build_message_any(msg_type) == TRUE
build_message(msg_type) ==
    msg_type \in {"0", "TEXT", "FILE", "IMAGE", "AUDIO", "VIDEO", "MONEY", "TRANSFER"}

\* DefaultPusher.push_notification(msg): nobody is muted; when a text is
\* built for the type of the message, a notification is added to the waiting
\* list of the Push Center
DefaultPusher_push_notification(c, h, o) ==
    IF build_message(Obj(h, o).type) THEN PushCenter_push_notification(c, o) ELSE c

\* the end of DefaultDeliver._push_message, p being the result of
\* session_push and the roamer: when no session took the message and the
\* roamer did not either, the pusher is called for a receiver of type USER
DefaultDeliver_notify(p, o, receiver) ==
    IF p.cnt >= 0 \/ IdType(receiver) # "USER" THEN p
    ELSE [p EXCEPT !.w.push = DefaultPusher_push_notification(@, p.w.heap, o)]

\* DefaultDeliver._push_message(msg, receiver): the message is saved, then
\* pushed, else redirected, else notified
DefaultDeliver_push_message(w, o, receiver) ==
    DefaultDeliver_notify(
        push_or_roam(
            push_result(session_push(
                [w EXCEPT !.store = save_message(w.heap, @, o, receiver).st],
                o, receiver)),
            o, receiver),
        o, receiver)

\* DefaultDeliver.deliver_message(msg) of deliver.py: the message is pushed to
\* the active sessions of msg.receiver; when there is none it is saved and the
\* pusher is called
DefaultDeliver_deliver_message(w, o) ==
    LET receiver == Obj(w.heap, o).receiver
        p == session_push(w, o, receiver)
    IN  IF p.cnt > 0 THEN p
        ELSE [w |-> [p.w EXCEPT
                        !.store = cache_reliable_message(w.heap, @, o, receiver).st,
                        !.push = DefaultPusher_push_notification(@, w.heap, o)],
              cnt |-> 0]

\* facebook.assistants(identifier): the assistants of the group, in the order
\* of the list
Assistants == <<Bot, Bot2>>

\* SessionCenter.is_active(identifier)
is_active(w, identifier) == active_sessions(w, identifier) # {}

\* GroupDeliver._get_assistant(group) of delivers.py: the first assistant that
\* is online, the first of the list when none is
GroupDeliver_get_assistant(w, group) ==
    IF \E i \in 1..Len(Assistants) : is_active(w, Assistants[i])
    THEN Assistants[CHOOSE i \in 1..Len(Assistants) :
                        /\ is_active(w, Assistants[i])
                        /\ \A j \in 1..(i - 1) : ~is_active(w, Assistants[j])]
    ELSE Assistants[1]

\* GroupDeliver._push_message(msg, receiver) of delivers.py for the one
\* recipient that _get_recipients gives: the message is saved for the
\* assistant, then pushed, else redirected
GroupDeliver_push_message(w, o, receiver) ==
    push_or_roam(
        push_result(session_push([w EXCEPT !.store = save_message(w.heap, @, o, receiver).st],
                                 o, receiver)),
        o, receiver)

\* the loop of GroupDeliver.deliver_message of deliver.py: the message is
\* pushed to the assistants in turn, until one has taken it
RECURSIVE GroupDeliver_push_first(_, _, _)
GroupDeliver_push_first(p, o, assistants) ==
    IF assistants = <<>> \/ p.cnt > 0 THEN p
    ELSE GroupDeliver_push_first(session_push(p.w, o, Head(assistants)), o,
                                 Tail(assistants))

\* GroupDeliver._save_group_message(msg, group, assistants) of deliver.py:
\* the group goes into msg['group'], the first assistant into
\* msg['receiver'], and the message is saved
GroupDeliver_save_group_message(w, o, group, assistants) ==
    IF Len(assistants) > 0
    THEN LET h == [w.heap EXCEPT ![o].group = group, ![o].receiver = assistants[1]]
         IN  [w EXCEPT !.heap = h,
                       !.store = cache_reliable_message(h, @, o, assistants[1]).st]
    ELSE w

\* GroupDeliver.deliver_message(msg) of deliver.py
GroupDeliver_deliver_message(w, o) ==
    LET p == GroupDeliver_push_first([w |-> w, cnt |-> 0], o, Assistants)
    IN  IF p.cnt = 0
        THEN [w |-> GroupDeliver_save_group_message(p.w, o, Obj(w.heap, o).receiver,
                                                    Assistants),
              cnt |-> 0]
        ELSE p

\* the loop of Dispatcher.__deliver_group_message: the message is pushed to
\* every assistant
counted(cnt, q) == [w |-> q.w, cnt |-> cnt + q.cnt]
RECURSIVE Dispatcher_push_each(_, _, _)
Dispatcher_push_each(p, o, assistants) ==
    IF assistants = <<>> THEN p
    ELSE Dispatcher_push_each(counted(p.cnt, session_push(p.w, o, Head(assistants))),
                              o, Tail(assistants))

\* Dispatcher.__deliver_group_message(msg) of dispatcher.py: the message is
\* saved as it is, then pushed to every assistant
Dispatcher_deliver_group_message(w, o) ==
    Dispatcher_push_each(
        [w |-> [w EXCEPT !.store = cache_reliable_message(w.heap, @, o,
                                                          Obj(w.heap, o).receiver).st],
         cnt |-> 0],
        o, Assistants)

\* a login command that is never taken for one of another station
is_roaming_never(roaming, current) == FALSE

\* step 2 of LoginCommandProcessor.process: the station of the command is not
\* the current one
is_roaming(roaming, current) == roaming # current

\* LoginCommandProcessor.process(content, msg) in session s, for the command
\* of user sender with the station roaming; saved and online are the results
\* of db.save_login_command_message and db.save_online_command. The command
\* is stored first; a command of another station and a command of another
\* user than the session's end without a response. 'session.active = True'
\* assigns to a property that has no setter (gatekeeper.py:142-144), which
\* raises AttributeError: the flag stays as it was and nothing is responded
LoginCommandProcessor_process(w, s, sender, roaming, saved, online) ==
    IF ~saved THEN [w |-> w, responses |-> <<>>, raised |-> FALSE]
    ELSE LET w1 == [w EXCEPT !.logins[sender] = roaming]
         IN  IF is_roaming(roaming, LocalStation)
             THEN [w |-> w1, responses |-> <<>>, raised |-> FALSE]
             ELSE IF sender # w.sess[s].id
             THEN [w |-> w1, responses |-> <<>>, raised |-> FALSE]
             ELSE IF online
             THEN [w |-> w1, responses |-> <<>>, raised |-> TRUE]
             ELSE [w |-> w1, responses |-> <<"Login received.">>, raised |-> FALSE]

\* pns_push(msg, receiver) of dispatcher.py: a message without a type counts
\* as type 0; when a text is built for the type, a notification goes to the
\* Push Center
pns_push(c, h, o) ==
    LET msg_type == Obj(h, o).type
    IN  IF build_message(IF msg_type = None THEN "0" ELSE msg_type)
        THEN PushCenter_push_notification(c, o)
        ELSE c

\* Dispatcher.__deliver_personal_message(msg) of dispatcher.py: the message is
\* saved, pushed to the active sessions of the receiver, and notified when
\* there is none
Dispatcher_deliver_personal_message(w, o) ==
    LET receiver == Obj(w.heap, o).receiver
        p == session_push(
                 [w EXCEPT !.store = cache_reliable_message(w.heap, @, o, receiver).st],
                 o, receiver)
    IN  IF p.cnt > 0 THEN p.w ELSE [p.w EXCEPT !.push = pns_push(@, w.heap, o)]

\* Dispatcher.__pop() on a list that is not empty: messages.pop(0)
Dispatcher_pop(messages) == [msg |-> Head(messages), rest |-> Tail(messages)]

\* Dispatcher.deliver(msg) up to the list: a message of a station is returned
\* without a receipt and without being appended; another message is what the
\* thread calls __append with
Dispatcher_deliver_check(w, t, o) ==
    IF IdType(Obj(w.heap, o).sender) = "STATION" THEN w
    ELSE [w EXCEPT !.dispatcher.calling[t] = <<o>>]

\* Dispatcher.__append(msg), under the lock
Dispatcher_append(w, t) ==
    LET o == Head(w.dispatcher.calling[t])
    IN  [w EXCEPT !.dispatcher.messages = Append(@, o),
                  !.dispatcher.appended = Append(@, o),
                  !.dispatcher.calling[t] = <<>>]

\* Dispatcher.process() with a message in the list: the first one is taken
\* out under the lock and delivered by the type of its receiver; a broadcast
\* message is only logged
Dispatcher_process(w) ==
    LET popped == Dispatcher_pop(w.dispatcher.messages)
        o == popped.msg
        receiver == Obj(w.heap, o).receiver
        w1 == [w EXCEPT !.dispatcher.messages = popped.rest,
                        !.dispatcher.taken = Append(@, o)]
    IN  IF IsBroadcast(receiver) THEN w1
        ELSE IF IsGroup(receiver) THEN Dispatcher_deliver_group_message(w1, o).w
        ELSE Dispatcher_deliver_personal_message(w1, o)

\* BroadcastDeliver._get_recipients(receiver)
BroadcastDeliver_get_recipients(receiver) ==
    IF receiver = ArchivistAnywhere THEN {Bot}
    ELSE IF receiver \in {StationEVERY, EVERYONE} THEN AllNeighbors
    ELSE {}

\* BroadcastDeliver._push_message(msg, receiver): pushed, else redirected,
\* never saved
BroadcastDeliver_push_message(w, o, receiver) ==
    push_or_roam(push_result(session_push(w, o, receiver)), o, receiver)

\* _push_message of the broadcast deliver for each of the recipients
RECURSIVE BroadcastDeliver_push_all(_, _, _)
BroadcastDeliver_push_all(w, o, recipients) ==
    IF recipients = {} THEN w
    ELSE LET r == CHOOSE x \in recipients : TRUE
         IN  BroadcastDeliver_push_all(BroadcastDeliver_push_message(w, o, r).w, o,
                                       recipients \ {r})

\* the deliver the dispatcher hands a message to: the broadcast deliver for a
\* broadcast ID, the group deliver for another group, the default deliver
\* otherwise
Dispatcher_deliver(w, o, receiver) ==
    IF IsBroadcast(receiver)
    THEN BroadcastDeliver_push_all(w, o, BroadcastDeliver_get_recipients(receiver))
    ELSE IF IsGroup(receiver)
    THEN GroupDeliver_push_message(w, o, GroupDeliver_get_assistant(w, receiver)).w
    ELSE DefaultDeliver_push_message(w, o, receiver).w

\* Dispatcher.deliver_message(msg, receiver): the message is handed over to the
\* deliver chosen by the receiver: the broadcast deliver for a broadcast ID,
\* the group deliver for another group, the default deliver for a user, a bot
\* or a station. The response is a receipt.
Dispatcher_deliver_message(w, o, receiver) ==
    [w |-> Dispatcher_deliver(
               [w EXCEPT !.dispatched = Append(@, [msg |-> o, receiver |-> receiver,
                                                   recipients |-> w.heap[o].recipients])],
               o, receiver),
     responses |-> <<Receipt>>]

\* deliver_message to each of the targets
RECURSIVE deliver_all(_, _, _)
deliver_all(w, o, targets) ==
    IF targets = {} THEN w
    ELSE LET t == CHOOSE x \in targets : TRUE
         IN  deliver_all(Dispatcher_deliver_message(w, o, t).w, o, targets \ {t})

\* step 0 of verify_message dropping a cycled message only when its receiver
\* is a station
cycled_ignored_station_only(traced, sender, receiver) ==
    traced /\ IdType(receiver) = "STATION"

\* ServerMessenger.verify_message, step 0: a cycled message is ignored when
\* its sender or receiver is a station, or its receiver is a broadcast ID
cycled_ignored(traced, sender, receiver) ==
    traced /\ (IdType(sender) = "STATION" \/ IdType(receiver) = "STATION"
               \/ IsBroadcast(receiver))

\* step 3 of verify_message asking only for the flag
not_login_flag_only(se) == ~se.active

\* ServerMessenger.verify_message, step 3: the session has not logged in
not_login(se) == se.id = None \/ ~se.active

\* ServerMessenger.verify_message: the world afterwards, and whether a message
\* is returned for the station to process
ServerMessenger_verify_message(w, s, o) ==
    LET sender == w.heap[o].sender
        receiver == w.heap[o].receiver
        ct == check_traced(w.heap, o)
        w1 == [w EXCEPT !.heap = ct.heap]
        se == w.sess[s]
    IN  IF cycled_ignored(ct.ret, sender, receiver)
        THEN [w |-> w1, ret |-> FALSE]
        ELSE IF ~trusted_sender(se, sender) /\ ~CommonMessenger_verify_message(w1.heap[o])
        THEN [w |-> w1, ret |-> FALSE]
        ELSE IF receiver = LocalStation
        THEN [w |-> w1, ret |-> TRUE]
        ELSE IF IsBroadcast(receiver) /\ IsUser(receiver) /\ receiver \in {StationANY, ANYONE}
        THEN [w |-> w1, ret |-> TRUE]
        ELSE IF not_login(se)
        THEN [w |-> send_content(w1, s, sender, Ask(se.key)), ret |-> FALSE]
        ELSE LET d == Dispatcher_deliver_message(w1, o, receiver)
             IN  [w |-> send_contents(d.w, s, sender, d.responses),
                  ret |-> IsBroadcast(receiver) /\ IsGroup(receiver)]



\* BaseCommandProcessor._respond_text
respond_text == <<Text>>

\* SessionCenter.update_session(session, identifier): the session is moved
\* under the identifier and the identifier is set on the session
SessionCenter_update_session(se, identifier, st) ==
    ServerSession_set_identifier(se, identifier, st).se

\* handshake_accepted that binds the identifier and leaves the flag alone
handshake_accepted_bind_only(w, s, identifier, t) ==
    [w EXCEPT !.sess[s] = SessionCenter_update_session(w.sess[s], identifier, w.store)]

\* handshake_accepted(identifier, session) at clock reading t:
\* SessionCenter.update_session binds the identifier, then set_active(True)
handshake_accepted(w, s, identifier, t) ==
    LET se1 == SessionCenter_update_session(w.sess[s], identifier, w.store)
        r2 == ServerSession_set_active(se1, TRUE, NoWhen, t, w.store)
    IN  [w EXCEPT !.sess[s] = r2.se]

\* the handshake processor accepting whatever session key is presented
HandshakeCommandProcessor_process_any(w, s, content, m, t) ==
    IF content.title \in {"DIM?", "DIM!"}
    THEN [w |-> w, responses |-> respond_text]
    ELSE [w |-> handshake_accepted(w, s, m.sender, t),
          responses |-> <<Accepted(w.sess[s].key)>>]

\* HandshakeCommandProcessor.process(content, msg) of the station
HandshakeCommandProcessor_process(w, s, content, m, t) ==
    IF content.title \in {"DIM?", "DIM!"}
    THEN [w |-> w, responses |-> respond_text]
    ELSE IF w.sess[s].key = content.session
    THEN [w |-> handshake_accepted(w, s, m.sender, t),
          responses |-> <<Accepted(w.sess[s].key)>>]
    ELSE [w |-> w, responses |-> <<Ask(w.sess[s].key)>>]

\* a response the station does not send back to a station
DroppedForStation(res, sender) ==
    res.cmd \in {"receipt", "text"} /\ IdType(sender) = "STATION"

\* ServerMessageProcessor.process_content: the content processor's responses,
\* with a 'DIM?' put in front while the session has no identifier
ServerMessageProcessor_process_content(w, s, o, t) ==
    LET m == w.heap[o]
        r == IF m.content.cmd = "handshake"
             THEN HandshakeCommandProcessor_process(w, s, m.content, m, t)
             ELSE [w |-> w, responses |-> respond_text]
        se == r.w.sess[s]
        responses == IF se.id = None /\ m.content.cmd # "handshake"
                     THEN <<Ask(se.key)>> \o r.responses
                     ELSE r.responses
    IN  [w |-> r.w,
         replies |-> SelectSeq(responses, LAMBDA res : ~DroppedForStation(res, m.sender)),
         processed |-> <<o>>]

\* _broadcast_message skipping only the local station
skip_cycled_station_only(target, sender, station) == target = station

\* the dispatch loop of _broadcast_message: a target that is the sender or the
\* local station is skipped
skip_cycled(target, sender, station) == target = sender \/ target = station

\* _broadcast_message dispatching the copies before it writes the recipients
ServerMessageProcessor_broadcast_message_late(w, o, station) ==
    LET m == w.heap[o]
        bot == ans_id(m.receiver)
        candidates == IF IsUser(m.receiver)
                      THEN (IF bot = None THEN {} ELSE {bot})
                      ELSE IF m.receiver \in {StationEVERY, EVERYONE} THEN AllNeighbors
                      ELSE {}
        new_recipients == candidates \ m.recipients
        targets == {x \in new_recipients : ~skip_cycled(x, m.sender, station)}
    IN  IF new_recipients = {} THEN w
        ELSE [deliver_all(w, o, targets) EXCEPT !.heap[o].recipients = @ \cup new_recipients]

\* ServerMessageProcessor._broadcast_message(msg, station)
ServerMessageProcessor_broadcast_message(w, o, station) ==
    LET m == w.heap[o]
        bot == ans_id(m.receiver)
        candidates == IF IsUser(m.receiver)
                      THEN (IF bot = None THEN {} ELSE {bot})
                      ELSE IF m.receiver \in {StationEVERY, EVERYONE} THEN AllNeighbors
                      ELSE {}
        new_recipients == candidates \ m.recipients
        targets == {x \in new_recipients : ~skip_cycled(x, m.sender, station)}
    IN  IF new_recipients = {} THEN w
        ELSE deliver_all([w EXCEPT !.heap[o].recipients = @ \cup new_recipients], o, targets)

\* ServerMessageProcessor._force_handshake(msg)
ServerMessageProcessor_force_handshake(w, s, o) ==
    LET v == ServerMessenger_verify_message(w, s, o)
    IN  [w |-> v.w, replies |-> IF v.ret THEN <<Ask(v.w.sess[s].key)>> ELSE <<>>,
         processed |-> <<>>]

\* ServerMessageProcessor._deliver_message(msg)
ServerMessageProcessor_deliver_message(w, o) ==
    LET d == Dispatcher_deliver_message(w, o, w.heap[o].receiver)
    IN  [w |-> d.w, replies |-> d.responses, processed |-> <<>>]

\* a receiver the station never processes a message for
to_every_never(receiver) == FALSE

\* process_reliable_message, step 1: the receiver is 'stations@everywhere' or
\* 'everyone@everywhere'; the message is broadcast and then processed
to_every(receiver) == receiver = StationEVERY \/ receiver = EVERYONE

\* ServerMessageProcessor.process_reliable_message(msg) on session s at clock
\* reading t: the world afterwards, the contents of the messages returned,
\* and the messages the station has processed itself
ServerMessageProcessor_process_reliable_message(w, s, o, t) ==
    IF is_blocked(w.heap[o])
    THEN [w |-> w, replies |-> <<>>, processed |-> <<>>]
    ELSE LET v == ServerMessenger_verify_message(w, s, o)
             receiver == w.heap[o].receiver
             se == v.w.sess[s]
         IN  IF ~v.ret
             THEN [w |-> v.w, replies |-> <<>>, processed |-> <<>>]
             ELSE IF receiver = LocalStation \/ receiver = StationANY \/ receiver = ANYONE
             THEN ServerMessageProcessor_process_content(v.w, s, o, t)
             ELSE IF se.id = None \/ ~se.active
             THEN ServerMessageProcessor_force_handshake(v.w, s, o)
             ELSE IF to_every(receiver)
             THEN ServerMessageProcessor_process_content(
                      ServerMessageProcessor_broadcast_message(v.w, o, LocalStation), s, o, t)
             ELSE IF IsBroadcast(receiver)
             THEN [w |-> ServerMessageProcessor_broadcast_message(v.w, o, LocalStation),
                   replies |-> <<>>, processed |-> <<>>]
             ELSE IF IsGroup(receiver)
             THEN [w |-> v.w, replies |-> <<>>, processed |-> <<>>]
             ELSE ServerMessageProcessor_deliver_message(v.w, o)

----------------------------------------------------------------------------
(* Operations of the station *)

\* 'Hello world!' commands a client sends for its first handshake: without a
\* session key, with the key of the first session, with another key
HelloKeys == {None, "K1", "K2"}

Handshakes ==
    {[Msg(sender, StationANY, 0) EXCEPT !.content = Hello(k), !.sigOK = ok] :
        sender \in Users, k \in HelloKeys, ok \in BOOLEAN}

\* traces of a message: fresh from a client, or back after a tour through
\* this station and a neighbor
FreshTraces == <<>>
BackTraces == <<LocalStation, Neighbor>>

CipherReceivers == {Bob, LocalStation, Neighbor, StationEVERY, ArchivistAnywhere}

Ciphers ==
    {[Msg(sender, receiver, 0) EXCEPT !.traces = tr] :
        sender \in {Alice, Neighbor}, receiver \in CipherReceivers,
        tr \in {FreshTraces, BackTraces}}
    \cup {[Msg(sender, receiver, 0) EXCEPT !.sigOK = FALSE] :
        sender \in {Alice, Neighbor}, receiver \in CipherReceivers}
    \cup {Msg(Mallory, Bob, 0)}

\* the messages that arrive
InMsgs == Handshakes \cup Ciphers

\* the fields of the station before a package is processed
PreStation(s) ==
    [key |-> sessKey[s], id |-> sessId[s], active |-> sessActive[s],
     last |-> sessLast[s], qlen |-> QueueLens(sessQueue[s]),
     queues |-> sessQueue, store |-> store, dispatched |-> Len(dispatched)]

\* messenger.process_package(data) for the package m arriving on session s:
\* the world afterwards and the contents of the responses
process_package(s, m) ==
    LET o == NewRef(heap)
        w0 == [World EXCEPT !.heap = Alloc(@, [m EXCEPT !.signature = o])]
    IN  ServerMessageProcessor_process_reliable_message(w0, s, o, now)

\* what is kept of the processing of a package, for the properties
Processing(s, m, r) ==
    [op |-> "receive", s |-> s, msg |-> NewRef(heap), arrived |-> m,
     pre |-> PreStation(s), replies |-> r.replies, processed |-> r.processed]

\* ServerSession.docker_received: a package arrives on session s, from
\* anybody; it is processed and the responses go back over the connection
Receive(s, m) ==
    /\ arrivals < MaxArrivals
    /\ sessOpen[s]
    /\ \E r \in {process_package(s, m)} :
           /\ PutWorld(r.w)
           /\ last' = Processing(s, m, r)
    /\ arrivals' = arrivals + 1
    /\ UNCHANGED <<now, sessOpen, calls, cliVars>>

DockerStatuses == {"READY", "ERROR"}

\* ServerSession.docker_status_changed(previous, current, docker)
DockerStatusChanged(s, current) ==
    /\ calls < MaxCalls
    /\ sessOpen[s]
    /\ LET r == ServerSession_set_active(Sess(s), current = "READY", NoWhen, now, store)
       IN  /\ PutSess(s, r.se)
           /\ last' = [op |-> "status", s |-> s, current |-> current,
                       pre |-> Pre(s), ret |-> r.ret]
    /\ sessOpen' = [sessOpen EXCEPT ![s] = current # "ERROR"]
    /\ calls' = calls + 1
    /\ UNCHANGED <<now, heap, store, dispatched, push, logins, dispatcher, loading, sent, arrivals, cliVars>>

----------------------------------------------------------------------------
(* Specification of the station: packages arrive on the first connection;  *)
(* the second connection is fresh, or Bob has logged in on it              *)

InitServing ==
    /\ InitStation /\ InitClient
    /\ store = EmptyStore
    /\ sessKey = [s \in Sessions |-> IF s = "c1" THEN "K1" ELSE "K2"]
    /\ sessQueue = [s \in Sessions |-> EmptyQueue]
    /\ sessOpen = [s \in Sessions |-> TRUE]
    /\ \E online \in BOOLEAN :
         /\ sessId = [s \in Sessions |-> IF s = "c2" /\ online THEN Bob ELSE None]
         /\ sessActive = [s \in Sessions |-> s = "c2" /\ online]
         /\ sessLast = [s \in Sessions |-> IF s = "c2" /\ online THEN 1 ELSE 0]

NextStation ==
    \/ \E m \in InMsgs : Receive("c1", m)
    \/ \E current \in DockerStatuses : DockerStatusChanged("c1", current)

SpecStation == InitServing /\ [][NextStation]_vars

----------------------------------------------------------------------------
(* Specification of the messages for everyone: Alice's connection is fresh *)
(* or she has logged in on it, the neighbor station may be connected, and  *)
(* messages for everyone and for a bot arrive on Alice's connection        *)

\* messages for everyone and for a bot, fresh or back from a tour, with the
\* recipients they have passed
Everyones ==
    {[Msg(sender, receiver, 0) EXCEPT !.traces = tr, !.recipients = rc, !.sigOK = ok] :
        sender \in {Alice, Mallory}, receiver \in {EVERYONE, ArchivistAnywhere},
        tr \in {FreshTraces, BackTraces}, rc \in {{}, AllNeighbors},
        ok \in BOOLEAN}

InitEveryone ==
    /\ InitStation /\ InitClient
    /\ store = EmptyStore
    /\ sessKey = [s \in Sessions |-> IF s = "c1" THEN "K1" ELSE "K2"]
    /\ sessQueue = [s \in Sessions |-> EmptyQueue]
    /\ sessOpen = [s \in Sessions |-> TRUE]
    /\ \E kind \in [Sessions -> {"fresh", "online", "offline"}] :
         /\ kind["c2"] # "offline"
         /\ sessId = [s \in Sessions |-> IF kind[s] = "fresh" THEN None
                                         ELSE IF s = "c1" THEN Alice ELSE Neighbor]
         /\ sessActive = [s \in Sessions |-> kind[s] = "online"]
         /\ sessLast = [s \in Sessions |-> IF kind[s] = "fresh" THEN 0 ELSE 1]

NextEveryone ==
    \/ \E m \in Everyones : Receive("c1", m)
    \/ \E current \in DockerStatuses : DockerStatusChanged("c1", current)

SpecEveryone == InitEveryone /\ [][NextEveryone]_vars

----------------------------------------------------------------------------
(* Delivery: the dispatcher hands messages to the sessions and the store,  *)
(* the gate of a session sends what is waiting in its queue                *)

\* the station bots that receive what is sent to everyone
StationBots == {Bot}

\* BroadcastRecipientManager.get_recipients(msg, receiver): the neighbors and
\* bots the message has not passed yet
get_recipients(m, receiver) ==
    LET traces == Range(m.traces)
    IN  IF receiver \in {StationEVERY, EVERYONE}
        THEN (AllNeighbors \ traces)
             \cup (IF receiver = EVERYONE THEN StationBots \ traces ELSE {})
        ELSE IF IsUser(receiver)
        THEN (IF ans_id(receiver) # None /\ ans_id(receiver) \notin traces
              THEN {ans_id(receiver)} ELSE {})
        ELSE {}

\* broadcast_reliable_message(msg, station)
broadcast_reliable_message(w, o, station) ==
    LET m == w.heap[o]
        recipients == get_recipients(m, m.receiver)
    IN  deliver_all(w, o, {t \in recipients : t # station /\ t # m.sender})

\* MessageQueue.next: the priority of the message handed out next
NextPriority(q) == CHOOSE p \in Priorities : q[p] # <<>> /\ \A p2 \in Priorities : p2 < p => q[p2] = <<>>

\* BaseSession.docker_sent(ship, docker): the session asks the database to
\* remove the message with remove_reliable_message(msg=msg); the method of
\* MessageDatabase takes (msg, receiver), so the call raises TypeError before
\* the table is read and the store stays as it is
BaseSession_docker_sent(h, st, o) == st

\* messages of users and stations for a user or a station
Personals ==
    {Msg(Bob, Alice, 0), Msg(Neighbor, Alice, 0), Msg(Bob, Neighbor, 0)}

\* the recipients a broadcast message carries when it comes in
RecipientLists == {{}, {Neighbor}, {Neighbor, Bot}}

\* broadcast messages that passed the cycle check of this station
Broadcasts ==
    {[Msg(Bob, receiver, 0) EXCEPT !.traces = <<LocalStation>>, !.recipients = R] :
        receiver \in {StationEVERY, EVERYONE, ArchivistAnywhere}, R \in RecipientLists}

\* the fields of the station before a delivery, kept for the properties
PreDeliver ==
    [store |-> store, dispatched |-> Len(dispatched), queues |-> sessQueue,
     active |-> sessActive, id |-> sessId, push |-> push, logins |-> logins]

\* ServerMessageProcessor._deliver_message for a message that passed the
\* messenger: the dispatcher delivers it to its receiver
DeliverMessage(m) ==
    /\ arrivals < MaxArrivals
    /\ LET o == NewRef(heap)
           w0 == [World EXCEPT !.heap = Alloc(@, [m EXCEPT !.signature = o])]
       IN  /\ PutWorld(ServerMessageProcessor_deliver_message(w0, o).w)
           /\ last' = [op |-> "deliver", msg |-> o, arrived |-> m, pre |-> PreDeliver]
    /\ arrivals' = arrivals + 1
    /\ UNCHANGED <<now, sessOpen, calls, cliVars>>

\* DefaultRoamer.roam_message for a message that no session of its receiver
\* took; the session center hands out its sessions in some order
RoamMessage(m, order) ==
    /\ arrivals < MaxArrivals
    /\ LET o == NewRef(heap)
           w0 == [World EXCEPT !.heap = Alloc(@, [m EXCEPT !.signature = o])]
           r == DefaultRoamer_roam_message(w0, o, m.receiver, order)
       IN  /\ PutWorld(r.w)
           /\ last' = [op |-> "roam", msg |-> o, arrived |-> m, pre |-> PreDeliver,
                       ret |-> r.ret]
    /\ arrivals' = arrivals + 1
    /\ UNCHANGED <<now, sessOpen, calls, cliVars>>

\* a personal message is handed to DefaultDeliver.deliver_message of deliver.py
DeliverPersonal(m) ==
    /\ arrivals < MaxArrivals
    /\ LET o == NewRef(heap)
           w0 == [World EXCEPT !.heap = Alloc(@, [m EXCEPT !.signature = o])]
       IN  /\ PutWorld(DefaultDeliver_deliver_message(w0, o).w)
           /\ last' = [op |-> "deliver_message", msg |-> o, arrived |-> m,
                       pre |-> PreDeliver]
    /\ arrivals' = arrivals + 1
    /\ UNCHANGED <<now, sessOpen, calls, cliVars>>

\* a group message is handed to GroupDeliver.deliver_message of deliver.py
DeliverGroup(m) ==
    /\ arrivals < MaxArrivals
    /\ LET o == NewRef(heap)
           w0 == [World EXCEPT !.heap = Alloc(@, [m EXCEPT !.signature = o])]
       IN  /\ PutWorld(GroupDeliver_deliver_message(w0, o).w)
           /\ last' = [op |-> "deliver_group", msg |-> o, arrived |-> m,
                       pre |-> PreDeliver]
    /\ arrivals' = arrivals + 1
    /\ UNCHANGED <<now, sessOpen, calls, cliVars>>

\* Dispatcher.process of dispatcher.py takes a group message from its list
DispatchGroup(m) ==
    /\ arrivals < MaxArrivals
    /\ LET o == NewRef(heap)
           w0 == [World EXCEPT !.heap = Alloc(@, [m EXCEPT !.signature = o])]
       IN  /\ PutWorld(Dispatcher_deliver_group_message(w0, o).w)
           /\ last' = [op |-> "dispatch_group", msg |-> o, arrived |-> m,
                       pre |-> PreDeliver]
    /\ arrivals' = arrivals + 1
    /\ UNCHANGED <<now, sessOpen, calls, cliVars>>

\* ServerMessageProcessor._broadcast_message for a broadcast message that
\* passed the messenger
BroadcastMessage(m) ==
    /\ arrivals < MaxArrivals
    /\ LET o == NewRef(heap)
           w0 == [World EXCEPT !.heap = Alloc(@, [m EXCEPT !.signature = o])]
       IN  /\ PutWorld(ServerMessageProcessor_broadcast_message(w0, o, LocalStation))
           /\ last' = [op |-> "broadcast", msg |-> o, arrived |-> m, pre |-> PreDeliver]
    /\ arrivals' = arrivals + 1
    /\ UNCHANGED <<now, sessOpen, calls, cliVars>>

\* the copies the edge sends to neighbor stations, one after the other; each
\* is recorded with the recipients it carries
RECURSIVE send_to_neighbors(_, _, _)
send_to_neighbors(w, o, targets) ==
    IF targets = {} THEN w
    ELSE LET t == CHOOSE x \in targets : TRUE
             w1 == [w EXCEPT !.dispatched = Append(@, [msg |-> o, receiver |-> t,
                                                       recipients |-> w.heap[o].recipients])]
         IN  send_to_neighbors(w1, o, targets \ {t})

\* outgo_message taking every neighbor for new
outgo_new_recipients_all(neighbors, old_recipients) == neighbors

\* step 0 of outgo_message: the neighbors that are not among the recipients
outgo_new_recipients(neighbors, old_recipients) == neighbors \ old_recipients

\* Octopus.outgo_message(msg), outers being the stations the edge is
\* connected to: the neighbors are the station of msg['neighbor'] when the
\* field is there (it is taken out), else the connected stations; the new
\* ones are written into the recipients, and the message is sent to those of
\* them the edge has a messenger for
Octopus_outgo_message(w, o, outers) ==
    LET m == w.heap[o]
        neighbors == IF m.neighbor # None THEN {m.neighbor} ELSE outers
        new_recipients == outgo_new_recipients(neighbors, m.recipients)
        w1 == [w EXCEPT !.heap[o].recipients = m.recipients \cup new_recipients,
                        !.heap[o].neighbor = None]
    IN  send_to_neighbors(w1, o, new_recipients \cap outers)

\* the stations an edge is connected to
OuterStations == {Neighbor}

\* Octopus.outgo_message for a broadcast message that leaves through the edge
OutgoMessage(m, neighbors) ==
    /\ arrivals < MaxArrivals
    /\ LET o == NewRef(heap)
           w0 == [World EXCEPT !.heap = Alloc(@, [m EXCEPT !.signature = o])]
       IN  /\ PutWorld(Octopus_outgo_message(w0, o, neighbors))
           /\ last' = [op |-> "outgo", msg |-> o, arrived |-> m, pre |-> PreDeliver]
    /\ arrivals' = arrivals + 1
    /\ UNCHANGED <<now, sessOpen, calls, cliVars>>

\* the messenger of session s hands a login command to its processor
Login(s, sender, roaming, saved, online) ==
    /\ calls < MaxCalls
    /\ sessOpen[s]
    /\ LET r == LoginCommandProcessor_process(World, s, sender, roaming, saved, online)
       IN  /\ PutWorld(r.w)
           /\ last' = [op |-> "login", s |-> s, sender |-> sender, roaming |-> roaming,
                       responses |-> r.responses, raised |-> r.raised,
                       pre |-> PreDeliver]
    /\ calls' = calls + 1
    /\ UNCHANGED <<now, sessOpen, arrivals, cliVars>>

\* a session thread calls Dispatcher.deliver(msg) and checks the sender
DeliverEnter(t, m) ==
    /\ Len(dispatcher.passed) < MaxPassed
    /\ dispatcher.calling[t] = <<>>
    /\ LET o == NewRef(heap)
           w0 == [World EXCEPT !.heap = Alloc(@, [m EXCEPT !.signature = o]),
                               !.dispatcher.passed = Append(@, o)]
       IN  /\ PutWorld(Dispatcher_deliver_check(w0, t, o))
           /\ last' = [op |-> "deliver_enter", msg |-> o, arrived |-> m,
                       pre |-> PreDeliver]
    /\ UNCHANGED <<now, sessOpen, arrivals, calls, cliVars>>

\* the thread within Dispatcher.deliver appends the message and returns the
\* receipt
DeliverAppend(t) ==
    /\ dispatcher.calling[t] # <<>>
    /\ PutWorld(Dispatcher_append(World, t))
    /\ last' = [op |-> "deliver_append", msg |-> Head(dispatcher.calling[t]),
                arrived |-> heap[Head(dispatcher.calling[t])], pre |-> PreDeliver]
    /\ UNCHANGED <<now, sessOpen, arrivals, calls, cliVars>>

\* one round of the background loop, Dispatcher.process, with a message in
\* the list; with an empty list nothing changes
DispatcherProcess ==
    /\ dispatcher.messages # <<>>
    /\ PutWorld(Dispatcher_process(World))
    /\ last' = [op |-> "dispatch", msg |-> Head(dispatcher.messages),
                arrived |-> heap[Head(dispatcher.messages)], pre |-> PreDeliver]
    /\ UNCHANGED <<now, sessOpen, arrivals, calls, cliVars>>

\* Octopus.outgo_message of the next edge on the way for a message that was
\* forwarded before
OutgoAgain(o, neighbors) ==
    /\ arrivals < MaxArrivals
    /\ o \in DOMAIN heap
    /\ PutWorld(Octopus_outgo_message(World, o, neighbors))
    /\ last' = [op |-> "outgo", msg |-> o, arrived |-> heap[o], pre |-> PreDeliver]
    /\ arrivals' = arrivals + 1
    /\ UNCHANGED <<now, sessOpen, calls, cliVars>>

\* broadcast_reliable_message for a broadcast message
BroadcastReliable(m) ==
    /\ arrivals < MaxArrivals
    /\ LET o == NewRef(heap)
           w0 == [World EXCEPT !.heap = Alloc(@, [m EXCEPT !.signature = o])]
       IN  /\ PutWorld(broadcast_reliable_message(w0, o, LocalStation))
           /\ last' = [op |-> "broadcast_reliable", msg |-> o, arrived |-> m,
                       pre |-> PreDeliver]
    /\ arrivals' = arrivals + 1
    /\ UNCHANGED <<now, sessOpen, calls, cliVars>>

\* a gate keeper that sends for an inactive session too
GateKeeper_sends_inactive(active, queue) == QueueOrder(queue) # <<>>

\* GateKeeper.process after hub and gate had nothing to do: it goes on to
\* gate.send_ship when the session is active and the queue has a next message
GateKeeper_sends(active, queue) == active /\ QueueOrder(queue) # <<>>

\* GateKeeper.process and docker_sent: the gate of an active session takes the
\* next message of the queue, sends it, and the docker reports it sent
Sent(s) ==
    /\ sessOpen[s]
    /\ GateKeeper_sends(sessActive[s], sessQueue[s])
    /\ LET p == NextPriority(sessQueue[s])
           o == Head(sessQueue[s][p])
       IN  /\ sessQueue' = [sessQueue EXCEPT ![s][p] = Tail(@)]
           /\ store' = BaseSession_docker_sent(heap, store, o)
           /\ sent' = Append(sent, [s |-> s, msg |-> o])
           /\ last' = [op |-> "sent", s |-> s, msg |-> o]
    /\ UNCHANGED <<now, heap, sessKey, sessId, sessActive, sessLast, sessOpen,
                   dispatched, push, logins, dispatcher, loading, arrivals, calls, cliVars>>

\* a failed send that removes the message from the store as if it was sent
Failed_removing(s) ==
    /\ sessOpen[s]
    /\ GateKeeper_sends(sessActive[s], sessQueue[s])
    /\ LET p == NextPriority(sessQueue[s])
           o == Head(sessQueue[s][p])
       IN  /\ sessQueue' = [sessQueue EXCEPT ![s][p] = Tail(@)]
           /\ store' = IF Obj(heap, o).receiver \in StoreKeys
                       THEN remove_reliable_message(heap, store, o, Obj(heap, o).receiver).st
                       ELSE store
           /\ last' = [op |-> "failed", s |-> s, msg |-> o]
    /\ UNCHANGED <<now, heap, sessKey, sessId, sessActive, sessLast, sessOpen,
                   dispatched, push, logins, dispatcher, loading, sent, arrivals, calls, cliVars>>

\* GateKeeper.process and docker_failed: the next message of the queue is
\* taken and the docker fails to send it
Failed(s) ==
    /\ sessOpen[s]
    /\ GateKeeper_sends(sessActive[s], sessQueue[s])
    /\ LET p == NextPriority(sessQueue[s])
           o == Head(sessQueue[s][p])
       IN  /\ sessQueue' = [sessQueue EXCEPT ![s][p] = Tail(@)]
           /\ last' = [op |-> "failed", s |-> s, msg |-> o]
    /\ UNCHANGED <<now, heap, sessKey, sessId, sessActive, sessLast, sessOpen,
                   store, dispatched, push, logins, dispatcher, loading, sent, arrivals, calls, cliVars>>

----------------------------------------------------------------------------
(* Specification of the delivery: Alice is known to the station; each of   *)
(* the two connections is fresh, or hers and reported online or offline.   *)
(* Messages arrive for delivery and the gates send; the first connection   *)
(* logs in, reports online and offline, fails to send and breaks           *)

SessionKinds == {"fresh", "online", "offline"}

InitDelivering ==
    /\ InitStation /\ InitClient
    /\ store = EmptyStore
    /\ sessKey = [s \in Sessions |-> IF s = "c1" THEN "K1" ELSE "K2"]
    /\ sessQueue = [s \in Sessions |-> EmptyQueue]
    /\ sessOpen = [s \in Sessions |-> TRUE]
    /\ \E kind \in [Sessions -> SessionKinds] :
         /\ kind["c2"] # "offline"
         /\ sessId = [s \in Sessions |-> IF kind[s] = "fresh" THEN None ELSE Alice]
         /\ sessActive = [s \in Sessions |-> kind[s] = "online"]
         /\ sessLast = [s \in Sessions |-> IF kind[s] = "fresh" THEN 0 ELSE 1]

NextDeliver ==
    \/ \E m \in Personals : DeliverMessage(m)
    \/ \E s \in Sessions : Sent(s)
    \/ Failed("c1")
    \/ \E active \in BOOLEAN : SetActive("c1", active, NoWhen)
    \/ SetIdentifier("c1", Alice)
    \/ DockerStatusChanged("c1", "ERROR")

SpecDeliver == InitDelivering /\ [][NextDeliver]_vars

----------------------------------------------------------------------------
(* Specification of the roaming: a login command of Alice may be stored,   *)
(* naming the neighbor or this station; each connection is fresh, or       *)
(* Alice's, or the neighbor's, or the bridge's (bound to the ID of this    *)
(* station), and is reported online and offline. Messages for Alice are    *)
(* redirected by the roamer, or delivered by the default deliver           *)

Roamings == {Msg(Bob, Alice, 0)}

SessionOrders == {<<"c1", "c2">>, <<"c2", "c1">>}

InitRoam ==
    /\ now = 1 /\ heap = <<>> /\ dispatched = <<>> /\ push = EmptyCenter
    /\ sent = <<>> /\ arrivals = 0 /\ calls = 0 /\ last = [op |-> "init"]
    /\ dispatcher = IdleDispatcher
    /\ loading = NotLoading
    /\ InitClient
    /\ store = EmptyStore
    /\ \E station \in {None, Neighbor, LocalStation} :
         logins = [NoLogins EXCEPT ![Alice] = station]
    /\ sessKey = [s \in Sessions |-> IF s = "c1" THEN "K1" ELSE "K2"]
    /\ sessQueue = [s \in Sessions |-> EmptyQueue]
    /\ sessOpen = [s \in Sessions |-> TRUE]
    /\ \E id \in [Sessions -> {None, Alice, Neighbor, LocalStation}] :
         /\ sessId = id
         /\ sessActive = [s \in Sessions |-> FALSE]
         /\ sessLast = [s \in Sessions |-> IF id[s] = None THEN 0 ELSE 1]

NextRoam ==
    \/ \E m \in Roamings, order \in SessionOrders : RoamMessage(m, order)
    \/ \E m \in Roamings : DeliverMessage(m)
    \/ \E s \in Sessions : \E active \in BOOLEAN : SetActive(s, active, NoWhen)

SpecRoam == InitRoam /\ [][NextRoam]_vars

----------------------------------------------------------------------------
(* Specification of the login command: commands of Alice and Bob for this  *)
(* station and for the neighbor arrive in the sessions                     *)

NextLogin ==
    \/ \E s \in Sessions, sender \in LoginKeys, roaming \in {LocalStation, Neighbor},
          saved \in BOOLEAN, online \in BOOLEAN :
          Login(s, sender, roaming, saved, online)
    \/ \E active \in BOOLEAN : SetActive("c1", active, NoWhen)

SpecLogin == InitDelivering /\ [][NextLogin]_vars

----------------------------------------------------------------------------
(* Specification of the dispatcher of dispatcher.py: two session threads   *)
(* pass messages to deliver while the background loop takes them out. The  *)
(* loop is a daemon thread that runs process again and again, and a thread *)
(* within deliver goes on to its append                                    *)

Passeds ==
    {Msg(sender, receiver, 0) : sender \in {Bob, Neighbor},
                                receiver \in {Alice, Group, EVERYONE}}

NextDispatcher ==
    \/ \E t \in Threads, m \in Passeds : DeliverEnter(t, m)
    \/ \E t \in Threads : DeliverAppend(t)
    \/ DispatcherProcess

SpecDispatcher ==
    /\ InitDelivering
    /\ [][NextDispatcher]_vars
    /\ WF_vars(DispatcherProcess)
    /\ \A t \in Threads : WF_vars(DeliverAppend(t))

----------------------------------------------------------------------------
(* Specification of the octopus: messages with and without a neighbor      *)
(* field leave through an edge that is connected to some of its peers, and *)
(* go on through the next edge                                             *)

Peers == {Neighbor, Neighbor3}

Outgoings ==
    {[Msg(Bob, receiver, 0) EXCEPT !.traces = <<LocalStation>>, !.recipients = R,
                                   !.neighbor = n] :
        receiver \in {EVERYONE, Alice}, R \in {{}, {Neighbor}},
        n \in {None} \cup Peers}

NextOctopus ==
    \/ \E m \in Outgoings, neighbors \in SUBSET Peers : OutgoMessage(m, neighbors)
    \/ \E o \in DOMAIN heap, neighbors \in SUBSET Peers : OutgoAgain(o, neighbors)

SpecOctopus == InitDelivering /\ [][NextOctopus]_vars

----------------------------------------------------------------------------
(* Specification of the traced broadcast: broadcast messages of a user, of *)
(* a neighbor station and of a bot, which have passed this station alone   *)
(* or a neighbor or a bot before it, are expanded by the processor and by  *)
(* broadcast_reliable_message                                              *)

TraceLists == {<<LocalStation>>, <<Neighbor, LocalStation>>, <<Bot, LocalStation>>}

Traceds ==
    {[Msg(sender, receiver, 0) EXCEPT !.traces = tr, !.recipients = R] :
        sender \in {Bob, Neighbor, Bot},
        receiver \in {StationEVERY, EVERYONE, ArchivistAnywhere},
        tr \in TraceLists, R \in {{}, {Neighbor}}}

NextTraces ==
    \/ \E m \in Traceds : BroadcastMessage(m)
    \/ \E m \in Traceds : BroadcastReliable(m)

SpecTraces == InitDelivering /\ [][NextTraces]_vars

----------------------------------------------------------------------------
(* Specification of the broadcast: broadcast messages are expanded while   *)
(* the sessions stay as they are                                           *)

NextBroadcast ==
    \/ \E m \in Broadcasts : BroadcastMessage(m)
    \/ \E m \in Broadcasts : BroadcastReliable(m)
    \/ \E m \in Broadcasts, neighbors \in SUBSET OuterStations : OutgoMessage(m, neighbors)

SpecBroadcast == InitDelivering /\ [][NextBroadcast]_vars

----------------------------------------------------------------------------
(* The client: session state machine and handshake processor *)

\* seconds after which the client gives a handshake up and starts again
HANDSHAKE_EXPIRES == 30

\* a message of the client
ClientMsg(receiver, content) == [Msg(ClientUser, receiver, 0) EXCEPT !.content = content]

\* the transitions of the session states: evaluate(ctx)
\* Default -> Connecting without a look at the current user
DefaultConnectingTransition_anonymous(user, status) == status \in {"PREPARING", "READY"}
DefaultConnectingTransition(user, status) ==
    user # None /\ status \in {"PREPARING", "READY"}
ConnectingConnectedTransition(status) == status = "READY"
ConnectedHandshakingTransition(key) == key = None
\* Handshaking -> Running whatever the session key is
HandshakingRunningTransition_always(key) == TRUE
HandshakingRunningTransition(key) == key # None
\* Handshaking -> Connected only when more than the 30 seconds have passed
HandshakingConnectedTransition_later(enter, t, status) ==
    enter # 0 /\ t > enter + HANDSHAKE_EXPIRES /\ status = "READY"
HandshakingConnectedTransition(enter, t, status) ==
    enter # 0 /\ t >= enter + HANDSHAKE_EXPIRES /\ status = "READY"
RunningDefaultTransition(key) == key = None
ErrorDefaultTransition(status) == status # "ERROR"
ConnectingErrorTransition(status) == status = "ERROR"
ConnectedErrorTransition(status) == status = "ERROR"
HandshakingErrorTransition(status) == status = "ERROR"
\* Running without a transition to Error
RunningErrorTransition_never(status) == FALSE
RunningErrorTransition(status) == status = "ERROR"

\* the target of the first transition of the state that evaluates to true
EvaluateTransitions(user, state, key, status, enter, t) ==
    CASE state = "default" ->
            IF DefaultConnectingTransition(user, status) THEN "connecting" ELSE None
      [] state = "connecting" ->
            IF ConnectingConnectedTransition(status) THEN "connected"
            ELSE IF ConnectingErrorTransition(status) THEN "error" ELSE None
      [] state = "connected" ->
            IF ConnectedHandshakingTransition(key) THEN "handshaking"
            ELSE IF ConnectedErrorTransition(status) THEN "error" ELSE None
      [] state = "handshaking" ->
            IF HandshakingRunningTransition(key) THEN "running"
            ELSE IF HandshakingConnectedTransition(enter, t, status) THEN "connected"
            ELSE IF HandshakingErrorTransition(status) THEN "error" ELSE None
      [] state = "running" ->
            IF RunningDefaultTransition(key) THEN "default"
            ELSE IF RunningErrorTransition(status) THEN "error" ELSE None
      [] state = "error" ->
            IF ErrorDefaultTransition(status) THEN "default" ELSE None

\* ClientMessenger.handshake(session_key)
ClientMessenger_handshake(station, session_key) == ClientMsg(station, Hello(session_key))

\* ClientMessenger.broadcast_document
ClientMessenger_broadcast_document == ClientMsg(EVERYONE, [cmd |-> "document"])

\* ClientMessenger.broadcast_login_command
ClientMessenger_broadcast_login_command == ClientMsg(EVERYONE, [cmd |-> "login"])

\* ClientMessenger.exit_state: what the client sends after the state changed
exit_state(current, station) ==
    IF current = "handshaking" THEN <<ClientMessenger_handshake(station, None)>>
    ELSE IF current = "running" THEN <<ClientMessenger_broadcast_document>>
    ELSE <<>>

\* a tick of the state machine: the first transition that evaluates to true
\* is taken
StateTick ==
    /\ LET target == EvaluateTransitions(cliUser, cliState, cliKey, gateStatus, cliEnter, now)
       IN  /\ target # None
           /\ cliState' = target
           /\ cliEnter' = now
           /\ c2s' = c2s \o exit_state(target, cliStation)
    /\ UNCHANGED <<now, heap, sessVars, store, dispatched, push, logins, dispatcher, loading, sent, arrivals, calls, last,
                   cliUser, cliKey, cliStation, gateStatus, s2c, cliFault, accepted>>

\* the status of the client's docker changes: the connection is being made,
\* is made, is broken
GateStatusChanged(current) ==
    /\ \/ gateStatus = "init" /\ current = "PREPARING"
       \/ gateStatus = "PREPARING" /\ current = "READY"
       \/ gateStatus \in {"PREPARING", "READY"} /\ current = "ERROR"
    /\ gateStatus' = current
    /\ UNCHANGED <<now, heap, sessVars, store, dispatched, push, logins, dispatcher, loading, sent, arrivals, calls, last,
                   cliUser, cliState, cliKey, cliEnter, cliStation, c2s, s2c, cliFault,
                   accepted>>

\* time passes, long enough for a handshake to expire
Expire ==
    /\ calls < MaxCalls
    /\ now' = now + HANDSHAKE_EXPIRES
    /\ calls' = calls + 1
    /\ UNCHANGED <<heap, sessVars, store, dispatched, push, logins, dispatcher, loading, sent, arrivals, last, cliVars>>

\* the client drops a command because an assertion of its processor failed
ClientFault ==
    /\ cliFault' = TRUE
    /\ UNCHANGED <<cliKey, cliStation, c2s>>

\* handshake_again(session_key, sid): the client signs in again with the key
\* the station asks for
handshake_again(session_key, sid) ==
    IF IdType(sid) # "STATION" \/ cliKey # None
    THEN ClientFault
    ELSE IF cliStation \in {None, StationANY}
    THEN /\ cliStation' = sid
         /\ c2s' = Append(c2s, ClientMsg(sid, Hello(session_key)))
         /\ UNCHANGED <<cliKey, cliFault>>
    ELSE IF cliStation # sid
    THEN ClientFault
    ELSE /\ c2s' = Append(c2s, ClientMsg(sid, Hello(session_key)))
         /\ UNCHANGED <<cliKey, cliStation, cliFault>>

\* handshake_success(session_key): the client keeps the key of the session
handshake_success(session_key) ==
    IF cliKey # None
    THEN ClientFault
    ELSE /\ cliKey' = session_key
         /\ c2s' = Append(c2s, ClientMessenger_broadcast_login_command)
         /\ UNCHANGED <<cliStation, cliFault>>

\* the client's HandshakeCommandProcessor.process(content, msg)
ClientHandshakeCommandProcessor_process(content, sender) ==
    IF content.title = "DIM?" THEN handshake_again(content.session, sender)
    ELSE IF content.title = "DIM!" THEN handshake_success(content.session)
    ELSE UNCHANGED <<cliKey, cliStation, c2s, cliFault>>

\* the client receives the next message of the station
ClientReceive ==
    /\ s2c # <<>>
    /\ LET m == Head(s2c)
       IN  IF m.content.cmd = "handshake"
           THEN ClientHandshakeCommandProcessor_process(m.content, m.sender)
           ELSE UNCHANGED <<cliKey, cliStation, c2s, cliFault>>
    /\ s2c' = Tail(s2c)
    /\ UNCHANGED <<now, heap, sessVars, store, dispatched, push, logins, dispatcher, loading, sent, arrivals, calls, last,
                   cliUser, cliState, cliEnter, gateStatus, accepted>>

\* the response messages of the station for the contents it answers with
Responses(replies) ==
    [i \in 1..Len(replies) |-> [sender |-> LocalStation, content |-> replies[i]]]

\* the session keys of the 'DIM!' commands among the responses
AcceptedKeys(replies) ==
    {replies[i].session : i \in {j \in 1..Len(replies) :
        replies[j].cmd = "handshake" /\ replies[j].title = "DIM!"}}

\* ServerSession.docker_received for the next package of the client: it is
\* processed and the responses go back to the client
StationReceive ==
    /\ c2s # <<>>
    /\ sessOpen["c1"]
    /\ \E r \in {process_package("c1", Head(c2s))} :
           /\ PutWorld(r.w)
           /\ last' = Processing("c1", Head(c2s), r)
           /\ s2c' = s2c \o Responses(r.replies)
           /\ accepted' = accepted \cup AcceptedKeys(r.replies)
    /\ c2s' = Tail(c2s)
    /\ UNCHANGED <<now, sessOpen, arrivals, calls,
                   cliUser, cliState, cliKey, cliEnter, cliStation, gateStatus, cliFault>>

----------------------------------------------------------------------------
(* Specification of a handshake run: one client, one connection *)

InitHandshake ==
    /\ InitSessions /\ InitStation /\ InitClient
    /\ store = EmptyStore

NextHandshake ==
    \/ StateTick
    \/ \E current \in {"PREPARING", "READY", "ERROR"} : GateStatusChanged(current)
    \/ Expire
    \/ ClientReceive
    \/ StationReceive
    \/ \E current \in DockerStatuses : DockerStatusChanged("c1", current)

SpecHandshake == InitHandshake /\ [][NextHandshake]_vars

----------------------------------------------------------------------------
(* Specification of the session states: the connection may be made again *)

\* StateMachine.status asks the gate for the docker of the remote address
\* with an advance party, so that a docker is made when the one in error is
\* gone: the status starts again. The packages of the old connection are
\* lost, and the station has closed its session of that connection
DockerReplaced ==
    /\ calls < MaxCalls
    /\ gateStatus = "ERROR"
    /\ ~sessOpen["c1"]
    /\ gateStatus' = "init"
    /\ c2s' = <<>>
    /\ s2c' = <<>>
    /\ calls' = calls + 1
    /\ UNCHANGED <<now, heap, sessVars, store, dispatched, push, logins, dispatcher, loading, sent, arrivals, last,
                   cliUser, cliState, cliKey, cliEnter, cliStation, cliFault, accepted>>

NextStates ==
    \/ NextHandshake
    \/ DockerReplaced

SpecStates == InitHandshake /\ [][NextStates]_vars

----------------------------------------------------------------------------
(* Specification of the handshake timeout: the clock moves in small steps *)

\* time.time() moves on by d seconds
Elapse(d) ==
    /\ calls < MaxCalls
    /\ now' = now + d
    /\ calls' = calls + 1
    /\ UNCHANGED <<heap, sessVars, store, dispatched, push, logins, dispatcher, loading, sent, arrivals, last, cliVars>>

\* one second, and one second less than the time a handshake may take
Delays == {1, HANDSHAKE_EXPIRES - 1}

NextTimeout ==
    \/ NextHandshake
    \/ \E d \in Delays : Elapse(d)

\* the state machine is an AutoMachine: its ticker evaluates the transitions
\* of the current state again and again, so a transition that stays enabled
\* is taken
SpecTimeout == InitHandshake /\ [][NextTimeout]_vars /\ WF_vars(StateTick)

----------------------------------------------------------------------------
(* Specification of the transition table: the user of the client changes,  *)
(* the connection breaks and is made again                                 *)

\* the user of the client session is switched: to nobody, or to the user
\* again; the session key is cleared
SwitchUser(user) ==
    /\ calls < MaxCalls
    /\ user # cliUser
    /\ cliUser' = user
    /\ cliKey' = None
    /\ calls' = calls + 1
    /\ UNCHANGED <<now, heap, sessVars, store, dispatched, push, logins, dispatcher, loading, sent, arrivals, last,
                   cliState, cliEnter, cliStation, gateStatus, c2s, s2c, cliFault, accepted>>

NextTable ==
    \/ NextStates
    \/ \E user \in {None, ClientUser} : SwitchUser(user)

SpecTable == InitHandshake /\ [][NextTable]_vars

----------------------------------------------------------------------------
(* Specification of a new connection after an error: the station receives  *)
(* it on a fresh session                                                   *)

\* the docker in error is gone and the gate makes a new one for the remote
\* address (StateMachine.status, get_docker); what was on the way is lost, and
\* the station serves the new connection with a new session
Reconnected ==
    /\ calls < MaxCalls
    /\ gateStatus = "ERROR"
    /\ gateStatus' = "init"
    /\ c2s' = <<>>
    /\ s2c' = <<>>
    /\ sessKey' = [sessKey EXCEPT !["c1"] = "K3"]
    /\ sessId' = [sessId EXCEPT !["c1"] = None]
    /\ sessActive' = [sessActive EXCEPT !["c1"] = FALSE]
    /\ sessLast' = [sessLast EXCEPT !["c1"] = 0]
    /\ sessQueue' = [sessQueue EXCEPT !["c1"] = EmptyQueue]
    /\ sessOpen' = [sessOpen EXCEPT !["c1"] = TRUE]
    /\ calls' = calls + 1
    /\ UNCHANGED <<now, heap, store, dispatched, push, logins, dispatcher, loading, sent, arrivals, last,
                   cliUser, cliState, cliKey, cliEnter, cliStation, cliFault, accepted>>

NextReconnect ==
    \/ NextHandshake
    \/ Reconnected

\* the ticker of the state machine runs on: a transition that stays enabled
\* is taken
SpecReconnect ==
    /\ InitHandshake /\ [][NextReconnect]_vars
    /\ WF_vars(StateTick)

----------------------------------------------------------------------------
(* Specification of the notifications: each of the two connections is      *)
(* fresh, or Alice's or the bot's; the second is online when it is the     *)
(* bot's, the first is reported online and offline. Messages               *)
(* of several types arrive for Alice and for the bot at the deliver of     *)
(* delivers.py and at the one of deliver.py, and the Push Center drains    *)
(* its list                                                                *)

\* the content type in the envelope of a message that arrives: absent, text,
\* command
MsgTypes == {None, "TEXT", "COMMAND"}

Notifieds ==
    {[Msg(sender, receiver, 0) EXCEPT !.type = t] :
        sender \in {Bob, Neighbor}, receiver \in {Alice, Bot}, t \in MsgTypes}

InitNotify ==
    /\ InitStation /\ InitClient
    /\ store = EmptyStore
    /\ sessKey = [s \in Sessions |-> IF s = "c1" THEN "K1" ELSE "K2"]
    /\ sessQueue = [s \in Sessions |-> EmptyQueue]
    /\ sessOpen = [s \in Sessions |-> TRUE]
    /\ \E id \in [Sessions -> {None, Alice, Bot}] :
         /\ id["c2"] # Alice
         /\ sessId = id
         /\ sessActive = [s \in Sessions |-> s = "c2" /\ id[s] # None]
         /\ sessLast = [s \in Sessions |-> IF id[s] = None THEN 0 ELSE 1]

NextNotify ==
    \/ \E m \in Notifieds : DeliverMessage(m)
    \/ \E m \in Notifieds : DeliverPersonal(m)
    \/ \E active \in BOOLEAN : SetActive("c1", active, NoWhen)
    \/ Process

SpecNotify == InitNotify /\ [][NextNotify]_vars

----------------------------------------------------------------------------
(* Specification of the group delivery: each of the two connections is     *)
(* fresh or an assistant's, online or offline. Messages for the group      *)
(* arrive at the group deliver of delivers.py, at the one of deliver.py    *)
(* and at the dispatcher of dispatcher.py; the connections are reported    *)
(* online and offline                                                      *)

GroupMessages == {Msg(sender, Group, 0) : sender \in {Bob, Alice}}

InitGroup ==
    /\ InitStation /\ InitClient
    /\ store = EmptyStore
    /\ sessKey = [s \in Sessions |-> IF s = "c1" THEN "K1" ELSE "K2"]
    /\ sessQueue = [s \in Sessions |-> EmptyQueue]
    /\ sessOpen = [s \in Sessions |-> TRUE]
    /\ \E id \in [Sessions -> {None, Bot, Bot2}] :
         /\ sessId = id
         /\ sessActive = [s \in Sessions |-> FALSE]
         /\ sessLast = [s \in Sessions |-> IF id[s] = None THEN 0 ELSE 1]

NextGroup ==
    \/ \E m \in GroupMessages : DeliverMessage(m)
    \/ \E m \in GroupMessages : DeliverGroup(m)
    \/ \E m \in GroupMessages : DispatchGroup(m)
    \/ \E s \in Sessions : \E active \in BOOLEAN : SetActive(s, active, NoWhen)

SpecGroup == InitGroup /\ [][NextGroup]_vars

----------------------------------------------------------------------------
(* Properties of set_active *)

\* the last step was a set_active call
WasSetActive == last.op = "set_active"
\* the call carried a timestamp of its own (not None, not <= 0)
LastExplicit == last.when.given /\ last.when.t > 0
\* the timestamp of the call: its own, or the clock's when it carried none
LastStamp == IF LastExplicit THEN last.when.t ELSE last.t
\* the call changed the flag
LastFlipped == sessActive[last.s] # last.pre.active

\* C9 as stated: the flag changes only in a call whose timestamp is strictly
\* later than the recorded one; an older or equal timestamp changes nothing
C9_FlipOnlyWhenLater ==
    WasSetActive =>
        /\ LastFlipped => LastStamp > last.pre.last
        /\ LastStamp <= last.pre.last =>
              /\ sessActive[last.s] = last.pre.active
              /\ sessLast[last.s] = last.pre.last

\* C9 amended: a call carrying its own positive timestamp changes nothing when
\* that timestamp is older than or equal to the recorded one; the flag changes
\* only in a call that carries no timestamp (None or <= 0, stamped with the
\* current time without comparison) or a strictly later one, and the recorded
\* timestamp changes only together with the flag, to the call's timestamp
C9_ExplicitStaleIgnored ==
    WasSetActive =>
        /\ (LastExplicit /\ last.when.t <= last.pre.last) =>
              /\ sessActive[last.s] = last.pre.active
              /\ sessLast[last.s] = last.pre.last
              /\ ~last.ret
        /\ LastFlipped =>
              /\ (~LastExplicit) \/ last.when.t > last.pre.last
              /\ sessActive[last.s] = last.active
              /\ sessLast[last.s] = LastStamp
        /\ (~LastFlipped) => sessLast[last.s] = last.pre.last

\* a call with a timestamp equal to or older than the recorded one, asking for
\* the other value of the flag, was made and ignored
C9_Witness ==
    /\ WasSetActive
    /\ LastExplicit
    /\ last.when.t <= last.pre.last
    /\ last.active # last.pre.active
    /\ sessActive[last.s] = last.pre.active

----------------------------------------------------------------------------
(* Properties of the station *)

\* the last step was the processing of a package
WasReceive == last.op = "receive"

\* the message as it arrived
Arrived == last.arrived

\* the arrived message is a 'Hello world!' command
IsHello == Arrived.content.cmd = "handshake" /\ Arrived.content.title = "Hello world!"

\* the sender was the session's user or a neighbor station when it arrived
SenderTrusted == (last.pre.id # None /\ Arrived.sender = last.pre.id) \/ Arrived.sender = Neighbor

\* the arrived message went through the block list, the cycle check and the
\* verification of its signature
Passed ==
    /\ Arrived.sender \notin BlockList
    /\ ~(/\ LocalStation \in Range(Arrived.traces)
         /\ (IdType(Arrived.sender) = "STATION" \/ IdType(Arrived.receiver) = "STATION"
             \/ IsBroadcast(Arrived.receiver)))
    /\ (SenderTrusted \/ Arrived.sigOK)

\* the station processed a 'Hello world!' command
HelloProcessed == WasReceive /\ IsHello /\ Passed

\* the session was not logged in when the message arrived
NotLoggedIn == last.pre.id = None \/ ~last.pre.active

\* the message is for somebody else than the station
ForOthers == Arrived.receiver \notin {LocalStation, StationANY, ANYONE}

\* nothing was handed to the dispatcher and the offline store is as before
NothingDelivered ==
    /\ Len(dispatched) = last.pre.dispatched
    /\ store = last.pre.store

\* no session got a message queued
NothingQueued == sessQueue = last.pre.queues

\* the messages queued on the session by the last step
NewlyQueued == QueueRefs(sessQueue[last.s]) \ QueueRefs(last.pre.queues[last.s])

\* the sender was answered with 'DIM?' and the session key, and nothing else
\* was queued
AskedAgain ==
    /\ \E o \in NewlyQueued :
          /\ NewlyQueued = {o}
          /\ heap[o].receiver = Arrived.sender
          /\ heap[o].sender = LocalStation
          /\ heap[o].content = Ask(sessKey[last.s])
    /\ \A s \in Sessions \ {last.s} : sessQueue[s] = last.pre.queues[s]

\* C1: a processed 'Hello world!' whose session field equals the session's
\* key leaves the session with the sender as identifier and active, and the
\* reply is 'DIM!'
C1_AcceptedHandshake ==
    (HelloProcessed /\ Arrived.content.session = last.pre.key) =>
        /\ sessId[last.s] = Arrived.sender
        /\ sessActive[last.s]
        /\ last.replies = <<Accepted(last.pre.key)>>

\* a first handshake with the right key was processed on a fresh session
C1_Witness ==
    /\ HelloProcessed
    /\ Arrived.content.session = last.pre.key
    /\ last.pre.id = None
    /\ ~last.pre.active
    /\ sessId[last.s] = Arrived.sender

\* C3: a processed 'Hello world!' whose session field is absent or differs
\* from the session's key is answered with 'DIM?' carrying the unchanged key,
\* and the session's identifier and flag stay as they were
C3_MismatchAsksAgain ==
    (HelloProcessed /\ Arrived.content.session # last.pre.key) =>
        /\ sessKey[last.s] = last.pre.key
        /\ last.replies = <<Ask(last.pre.key)>>
        /\ sessId[last.s] = last.pre.id
        /\ sessActive[last.s] = last.pre.active
        /\ sessLast[last.s] = last.pre.last

\* a handshake with another key was processed on a session that had accepted
\* a handshake before
C3_Witness ==
    /\ HelloProcessed
    /\ Arrived.content.session \notin {None, last.pre.key}
    /\ last.pre.id # None
    /\ last.replies = <<Ask(last.pre.key)>>

\* C4 as stated: a message for others arriving on a session that is not
\* logged in is not delivered, and the sender is answered with 'DIM?'
C4_GateAlwaysAsks ==
    (WasReceive /\ ForOthers /\ NotLoggedIn) =>
        /\ NothingDelivered
        /\ AskedAgain

\* C4 amended: a message for others arriving on a session that is not logged
\* in is never handed to the dispatcher or stored; the sender is answered
\* with 'DIM?' and the session key when the message passed the block list,
\* the cycle check and the verification, and is not answered at all otherwise
C4_GateHoldsAndAsks ==
    (WasReceive /\ ForOthers /\ NotLoggedIn) =>
        /\ NothingDelivered
        /\ last.replies = <<>>
        /\ IF Passed THEN AskedAgain ELSE NothingQueued

\* a verified message for another user arrived on a session that is active
\* without identifier, and was answered with 'DIM?'
C4_Witness ==
    /\ WasReceive /\ ForOthers
    /\ last.pre.id = None /\ last.pre.active
    /\ Passed
    /\ AskedAgain

\* C5: a message from a sender that is neither the session's user nor a
\* neighbor station and whose signature does not verify is dropped: nothing
\* delivered, nothing stored, nothing queued, no reply, session as before
C5_UnverifiedDropped ==
    (WasReceive /\ ~SenderTrusted /\ ~Arrived.sigOK) =>
        /\ NothingDelivered
        /\ NothingQueued
        /\ last.replies = <<>>
        /\ sessId[last.s] = last.pre.id
        /\ sessActive[last.s] = last.pre.active

\* a message with a bad signature, from a user who is not blocked and not the
\* session's user, arrived on a session that is logged in
C5_Witness ==
    /\ WasReceive
    /\ ~SenderTrusted /\ ~Arrived.sigOK
    /\ Arrived.sender \notin BlockList
    /\ last.pre.id # None /\ last.pre.active
    /\ NothingDelivered

\* the message came back: its traces held the station when it arrived
CameBack == LocalStation \in Range(Arrived.traces)

\* C6: a message whose traces hold the station already and whose receiver is
\* a station or a broadcast ID is dropped: nothing queued on any session,
\* nothing handed to the dispatcher, store unchanged
C6_CycledDropped ==
    (WasReceive /\ CameBack
       /\ (IdType(Arrived.receiver) = "STATION" \/ IsBroadcast(Arrived.receiver))) =>
        /\ NothingQueued
        /\ NothingDelivered
        /\ last.replies = <<>>

\* a broadcast message came back on a session that is logged in, from the
\* session's user
C6_Witness ==
    /\ WasReceive /\ CameBack
    /\ Arrived.receiver = StationEVERY
    /\ last.pre.id = Arrived.sender /\ last.pre.active
    /\ NothingDelivered

\* how often x occurs in a list
Count(seq, x) == Cardinality({i \in 1..Len(seq) : seq[i] = x})

\* C7: after the station processed a message, the station's ID occurs at
\* most once in the message's traces
C7_TracedOnce ==
    \A o \in DOMAIN heap : Count(heap[o].traces, LocalStation) <= 1

\* a message for a user came back to the station after passing through a
\* neighbor, and was handed to the dispatcher again
C7_Witness ==
    /\ WasReceive /\ CameBack
    /\ IdType(Arrived.receiver) = "USER"
    /\ Len(dispatched) > last.pre.dispatched
    /\ Count(heap[last.msg].traces, LocalStation) = 1

\* the station accepted a handshake in the last step
HelloAccepted == HelloProcessed /\ Arrived.content.session = last.pre.key

----------------------------------------------------------------------------
(* Properties of the handshake *)

----------------------------------------------------------------------------
(* Properties of the reload *)

\* the last step was a set_active or set_identifier call that took effect
WasSessionChange == last.op \in {"set_active", "set_identifier"} /\ last.ret

\* the signatures of a list of messages
SigsOf(h, msgs) == {SigOf(h, msgs[i]) : i \in 1..Len(msgs)}

\* the signatures of the messages waiting in a queue
QueueSigs(h, q) == UNION {SigsOf(h, q[p]) : p \in Priorities}

\* C10: when the flag flips to true with an identifier set, or the identifier
\* changes while active, every message stored for the identifier is queued on
\* the session; without identifier or while inactive nothing is queued
C10_ReloadQueuesAllStored ==
    WasSessionChange =>
        LET s == last.s
        IN  IF sessId[s] # None /\ sessActive[s]
            THEN SigsOf(heap, store[sessId[s]]) \subseteq QueueSigs(heap, sessQueue[s])
            ELSE QueueLens(sessQueue[s]) = last.pre.qlen

----------------------------------------------------------------------------
(* Properties of the delivery *)

C12_DeliveredOnce ==
    \A i, j \in 1..Len(sent) :
        (sent[i].s = sent[j].s /\ sent[i].msg = sent[j].msg) => i = j

\* C13: when a reload puts stored messages into the queue of a session, each
\* of them comes after every message that was saved before it and is still
\* stored. The messages of this specification are saved when they arrive, so
\* the one with the greater reference was saved first.
C13_ReplayInSavedOrder ==
    [][\A s \in Sessions :
          LET q == sessQueue[s][1]
              q2 == sessQueue'[s][1]
              seg == SubSeq(q2, Len(q) + 1, Len(q2))
          IN  Len(q2) > Len(q) =>
                \A j \in 1..Len(seg) : \A o1 \in Range(store[sessId'[s]]) :
                    o1 > seg[j] => \E i \in 1..(j - 1) : seg[i] = o1]_vars

\* a session came up and two messages saved one after the other were put into
\* its queue
C13_Witness ==
    /\ last.op \in {"set_active", "set_identifier"}
    /\ last.ret
    /\ Len(sessQueue[last.s][1]) >= last.pre.qlen[1] + 2
    /\ Cardinality(Range(sessQueue[last.s][1])) >= 2

\* the sessions that reported the message sent
SentBy(o) == {sent[i].s : i \in {k \in 1..Len(sent) : sent[k].msg = o}}

\* C14: a message delivered to a user with two active sessions is in each of
\* the two queues once and in the store; when both sessions have reported it
\* sent, the store does not hold it any more
C14_FanOutThenRemoved ==
    /\ (/\ last.op = "deliver"
        /\ last.arrived.receiver = Alice
        /\ last.arrived.sender = Bob
        /\ \A s \in Sessions : last.pre.id[s] = Alice /\ last.pre.active[s])
       => /\ \A s \in Sessions :
               Count(QueueOrder(sessQueue[s]), last.msg)
                 = Count(QueueOrder(last.pre.queues[s]), last.msg) + 1
          /\ last.msg \in Range(store[Alice])
    /\ \A o \in DOMAIN heap : SentBy(o) = Sessions => o \notin Range(store[Alice])

----------------------------------------------------------------------------
(* Properties of the offline store *)

\* the signatures of a list, in its order
Signatures(h, messages) == [i \in 1..Len(messages) |-> SigOf(h, messages[i])]

\* C15: the offline store is idempotent by signature: saving a message whose
\* signature is already stored for the receiver returns false and leaves the
\* store unchanged, so no list holds two messages of one signature; removing
\* a message that is not stored returns false and leaves the store unchanged
C15_IdempotentBySignature ==
    [][/\ \A r \in StoreKeys : \A i, j \in 1..Len(store'[r]) :
            SigOf(heap', store'[r][i]) = SigOf(heap', store'[r][j]) => i = j
       /\ last'.op = "save" =>
            LET stored == SigOf(heap, last'.msg) \in Range(Signatures(heap, store[last'.receiver]))
            IN  /\ stored => ~last'.ret /\ store' = store
                /\ ~stored => last'.ret
       /\ last'.op = "remove" =>
            LET stored == SigOf(heap, last'.msg) \in Range(Signatures(heap, store[last'.receiver]))
            IN  /\ ~stored => ~last'.ret /\ store' = store
                /\ stored => /\ last'.ret
                             /\ SigOf(heap, last'.msg)
                                  \notin Range(Signatures(heap', store'[last'.receiver]))]_vars

\* the first message was removed, and then a copy of the second one, a new
\* object with the signature of a stored message, was saved and refused
C15_Witness ==
    /\ last.op = "save" /\ ~last.ret /\ last.msg = -2
    /\ store[Alice] = <<2, 3>>

\* C16: a fetch with (receiver, start, limit) returns the contiguous slice
\* of the receiver's list that begins at start (from the tail when start is
\* negative, clamped to the list) and has at most limit messages, with the
\* number of stored messages after the slice
C16_FetchReturnsSlice ==
    last.op = "fetch" =>
        LET messages == store[last.receiver]
            total == Len(messages)
            begin == IF last.start < 0
                     THEN (IF total + last.start < 0 THEN 0 ELSE total + last.start)
                     ELSE (IF last.start > total THEN total ELSE last.start)
            end == IF begin + last.limit > total THEN total ELSE begin + last.limit
        IN  /\ last.messages = SubSeq(messages, begin + 1, end)
            /\ last.remaining = total - end

\* C17 as stated: after 70 001 distinct messages were saved for one receiver,
\* a fetch with start=0 and limit=1024 returns 1024 messages and the first
\* message saved is no longer stored
C17_FirstGoneAfter70001 ==
    (SavedCount = 70001 /\ last.op = "fetch" /\ last.start = 0 /\ last.limit = LIMIT) =>
        /\ Len(last.messages) = 1024
        /\ 1 \notin Range(store[Alice])

\* C17 amended: after 70 001 saves such a fetch returns 1024 messages and the
\* first message saved is still stored; the list grows up to CACHE_LIMIT + 1
\* messages, and the first message saved leaves it with the save of message
\* CACHE_LIMIT + 2
C17_FirstGoneAfterLimit ==
    /\ (last.op = "fetch" /\ last.start = 0 /\ last.limit = LIMIT) =>
            Len(last.messages) = 1024
    /\ SavedCount = 70001 => \E i \in 1..Len(store[Alice]) : store[Alice][i] = 1
    /\ SavedCount <= CACHE_LIMIT + 1 =>
            /\ Len(store[Alice]) = SavedCount
            /\ store[Alice][1] = 1
    /\ SavedCount >= CACHE_LIMIT + 2 =>
            /\ Len(store[Alice]) = CACHE_LIMIT + 1
            /\ store[Alice][1] = SavedCount - CACHE_LIMIT

\* 70 001 messages were saved and the first page is fetched
C17_Witness ==
    /\ SavedCount = 70001
    /\ last.op = "fetch" /\ last.start = 0 /\ last.limit = LIMIT
    /\ Len(last.messages) = 1024
    /\ store[Alice][1] = 1

----------------------------------------------------------------------------
(* Properties of the broadcast *)

\* C18: no message from or for a station, and no message delivered as part
\* of a broadcast (the copies handed to concrete neighbors and bots
\* included), is in the offline store
C18_NeverPersisted ==
    \A r \in StoreKeys : \A i \in 1..Len(store[r]) :
        LET m == Obj(heap, store[r][i])
        IN  /\ IdType(m.sender) # "STATION"
            /\ IdType(m.receiver) # "STATION"
            /\ IdType(r) # "STATION"
            /\ ~IsBroadcast(m.receiver)

\* the targets of the copies forwarded by the last step
NewTargets == {dispatched[i].receiver : i \in (last.pre.dispatched + 1)..Len(dispatched)}

----------------------------------------------------------------------------
(* Properties of the session states of the client *)

\* the states in which a connection exists
ConnectionStates == {"connecting", "connected", "handshaking", "running"}

\* the transition to Error of a state with a connection
ErrorTransition(state, status) ==
    CASE state = "connecting" -> ConnectingErrorTransition(status)
      [] state = "connected" -> ConnectedErrorTransition(status)
      [] state = "handshaking" -> HandshakingErrorTransition(status)
      [] state = "running" -> RunningErrorTransition(status)

\* C20: in Connecting, Connected, Handshaking and Running the gate status
\* Error enables the transition to Error, which the machine takes unless a
\* transition listed before it is enabled too; from Error the machine moves
\* to Default, and it does so exactly when the status is not Error
C20_ErrorTransitions ==
    [][LET target == EvaluateTransitions(cliUser, cliState, cliKey, gateStatus, cliEnter, now)
       IN  /\ (cliState \in ConnectionStates /\ gateStatus = "ERROR") =>
                /\ ErrorTransition(cliState, gateStatus)
                /\ \/ target = "error"
                   \/ cliState = "connected" /\ cliKey = None /\ target = "handshaking"
                   \/ cliState = "handshaking" /\ cliKey # None /\ target = "running"
                   \/ cliState = "running" /\ cliKey = None /\ target = "default"
           /\ cliState = "error" =>
                /\ target \in {None, "default"}
                /\ target = "default" <=> gateStatus # "ERROR"
           /\ cliState' # cliState => cliState' = target]_vars

\* the client was signed in, its connection broke, and the machine went
\* through Error back to Default when the status had left Error
C20_Witness ==
    /\ cliState = "default"
    /\ cliKey # None
    /\ gateStatus # "ERROR"

----------------------------------------------------------------------------
(* Properties of the handshake timeout *)

\* the client has been in Handshaking for 30 seconds or more, has no session
\* key, and the gate is Ready
HandshakeExpired ==
    /\ cliState = "handshaking"
    /\ cliKey = None
    /\ gateStatus = "READY"
    /\ now >= cliEnter + 30

\* C21: the machine leaves Handshaking for Connected only when the handshake
\* has taken 30 seconds or more without a session key while the gate is
\* Ready; in such a state the fallback is the transition the machine takes,
\* and it takes it; from Connected without a key the machine enters
\* Handshaking again, and entering it sends a 'Hello world!' without a key
C21_TimeoutRetries ==
    /\ [][/\ (cliState = "handshaking" /\ cliState' = "connected") => HandshakeExpired
          /\ HandshakeExpired =>
                EvaluateTransitions(cliUser, cliState, cliKey, gateStatus, cliEnter, now) = "connected"
          /\ (cliState = "connected" /\ cliState' = "handshaking") =>
                c2s' = Append(c2s, ClientMsg(cliStation, Hello(None)))]_vars
    /\ HandshakeExpired ~> (cliState = "connected" \/ ~HandshakeExpired)
    /\ (cliState = "connected" /\ cliKey = None) ~> (cliState = "handshaking" \/ cliKey # None)

\* the handshake expired exactly 30 seconds after the client entered
\* Handshaking at time 1; the client is in Handshaking again and its second
\* offer follows the first, which the station has not taken yet
C21_Witness ==
    /\ cliState = "handshaking"
    /\ cliEnter = 31
    /\ now = 31
    /\ cliKey = None
    /\ c2s = <<ClientMsg(StationANY, Hello(None)), ClientMsg(StationANY, Hello(None))>>

----------------------------------------------------------------------------
(* Properties of the Push Center *)

\* the numbers of the tasks of a list
Numbers(tasks) == [i \in 1..Len(tasks) |-> tasks[i].n]

\* C22: a notification offered while more than 100 000 tasks wait is refused
\* and not appended, the list never holds more than 100 001 tasks, and the
\* tasks are given to the services in the order of their appending, the old
\* ones first
C22_NeverMoreThan100001 ==
    /\ (last.op = "count" /\ last.count > 100000) => ~last.ret
    /\ PushCenter_count(push) <= 100001
    /\ push.backlog > 0 => \A i \in 1..Len(push.handed) : push.handed[i] = OldTask
    /\ \E k \in 0..Len(push.handed) :
            /\ \A i \in 1..k : push.handed[i] = OldTask
            /\ Numbers(SubSeq(push.handed, k + 1, Len(push.handed)) \o push.tasks)
                    = [i \in 1..push.made |-> i]

----------------------------------------------------------------------------
(* Properties of a failed send *)

\* C23: when sending the next message of the queue of a session fails, the
\* offline store is left as it is and the session is not active afterwards
C23_FailedStaysStoredAndInactive ==
    [][\A s \in Sessions : Failed(s) => (store' = store /\ ~sessActive'[s])]_vars

----------------------------------------------------------------------------
(* Properties of the messages for everyone *)

\* C24: a message for everyone that the station accepts from a session that
\* has logged in is processed by the station itself, once, and it is expanded:
\* the neighbors are among its recipients afterwards and each neighbor that
\* was not, other than this station and the sender, is handed a copy. A
\* message for everyone that is not accepted is not processed by the station
C24_EveryoneKeptLocal ==
    (WasReceive /\ Arrived.receiver = EVERYONE) =>
        IF Passed /\ ~NotLoggedIn
        THEN /\ last.processed = <<last.msg>>
             /\ AllNeighbors \subseteq heap[last.msg].recipients
             /\ Len(dispatched) > last.pre.dispatched
             /\ AllNeighbors \ (Arrived.recipients \cup {LocalStation, Arrived.sender})
                    \subseteq {dispatched[i].receiver :
                                  i \in (last.pre.dispatched + 1)..Len(dispatched)}
        ELSE last.processed = <<>>

\* Alice's fresh message for everyone was processed by the station and is
\* waiting in the queue of the neighbor's session
C24_Witness ==
    /\ WasReceive
    /\ Arrived.receiver = EVERYONE
    /\ Arrived.sender = Alice
    /\ Arrived.recipients = {}
    /\ last.processed = <<last.msg>>
    /\ sessId["c2"] = Neighbor
    /\ last.msg \in QueueRefs(sessQueue["c2"])

----------------------------------------------------------------------------
(* Properties of the transition table *)

\* C25: the state of the client session changes only along an edge of the
\* table, and only when the condition of the edge holds: Default to
\* Connecting with a user and the gate Preparing or Ready, Connecting to
\* Connected with the gate Ready, Connected to Handshaking without a session
\* key, Handshaking to Running with a session key, Handshaking to Connected
\* after 30 seconds with the gate Ready, Running to Default without a session
\* key, from a state with a connection to Error with the gate in Error, Error
\* to Default with the gate out of Error
C25_OnlyTableEdges ==
    [][cliState' # cliState =>
        \/ /\ cliState = "default" /\ cliState' = "connecting"
           /\ cliUser # None /\ gateStatus \in {"PREPARING", "READY"}
        \/ /\ cliState = "connecting" /\ cliState' = "connected"
           /\ gateStatus = "READY"
        \/ /\ cliState = "connected" /\ cliState' = "handshaking"
           /\ cliKey = None
        \/ /\ cliState = "handshaking" /\ cliState' = "running"
           /\ cliKey # None
        \/ /\ cliState = "handshaking" /\ cliState' = "connected"
           /\ now >= cliEnter + 30 /\ gateStatus = "READY"
        \/ /\ cliState = "running" /\ cliState' = "default"
           /\ cliKey = None
        \/ /\ cliState \in ConnectionStates /\ cliState' = "error"
           /\ gateStatus = "ERROR"
        \/ /\ cliState = "error" /\ cliState' = "default"
           /\ gateStatus # "ERROR"]_vars

\* the client was Running, its user was taken away, and the machine went
\* from Running to Default, where it stays although the gate is Ready
C25_Witness ==
    /\ cliState = "default"
    /\ cliUser = None
    /\ cliKey = None
    /\ gateStatus = "READY"
    /\ sessId["c1"] = ClientUser
    /\ sessActive["c1"]

----------------------------------------------------------------------------
(* Properties of the handshake processor of the client *)

\* C26: whenever the client processes a 'DIM?' or a 'DIM!' of the station,
\* its session key is empty
C26_KeyEmptyWhenAsked ==
    [][(/\ ClientReceive
        /\ Head(s2c).content.cmd = "handshake"
        /\ Head(s2c).content.title \in {"DIM?", "DIM!"}) => cliKey = None]_vars

----------------------------------------------------------------------------
(* Properties of a new connection after an error *)

\* C27: when the gate goes to Error while the client is Running, then either
\* the gate does not stay Ready again, or the client is Running again with
\* the gate Ready
C27_RunningAgain ==
    [](cliState = "running" /\ gateStatus = "ERROR" =>
         \/ <>[](gateStatus # "READY")
         \/ <>(cliState = "running" /\ gateStatus = "READY"))

----------------------------------------------------------------------------
(* Properties of the notifications *)

\* the last step delivered a message for receiver r that found no active
\* session of r
DeliveredOffline(r) ==
    /\ last.op \in {"deliver", "deliver_message"}
    /\ last.arrived.receiver = r
    /\ ~\E s \in Sessions : last.pre.id[s] = r /\ last.pre.active[s]

\* the Push Center was offered exactly one notification, for the message of
\* the last step
NotifiedOnce ==
    push = PushCenter_append(last.pre.push, last.msg)

C29_BotNeverNotified ==
    (last.op \in {"deliver", "deliver_message"} /\ IdType(last.arrived.receiver) = "BOT")
        => push = last.pre.push

----------------------------------------------------------------------------
(* Properties of the group delivery *)

\* the assistant had an active session before the last step
WasOnline(a) == \E s \in Sessions : last.pre.id[s] = a /\ last.pre.active[s]

\* the sessions the last step pushed a message to
PushedTo == {s \in Sessions : sessQueue[s] # last.pre.queues[s]}

\* C30: a group message is pushed to the sessions of exactly one assistant,
\* the first in the order of the list that is online; when no assistant is
\* online nothing is pushed and the message is stored for the first assistant
\* of the list, with that assistant as its receiver and the group in its group
\* field
C30_FirstOnlineAssistant ==
    (last.op \in {"deliver", "deliver_group", "dispatch_group"}
        /\ last.arrived.receiver = Group) =>
        IF \E i \in 1..Len(Assistants) : WasOnline(Assistants[i])
        THEN \E i \in 1..Len(Assistants) :
                /\ WasOnline(Assistants[i])
                /\ \A j \in 1..(i - 1) : ~WasOnline(Assistants[j])
                /\ PushedTo = {s \in Sessions : last.pre.id[s] = Assistants[i]
                                                  /\ last.pre.active[s]}
        ELSE /\ PushedTo = {}
             /\ \E k \in 1..Len(store[Assistants[1]]) :
                    store[Assistants[1]][k] = last.msg
             /\ Obj(heap, last.msg).receiver = Assistants[1]
             /\ Obj(heap, last.msg).group = Group

\* the group deliver of deliver.py alone does so
DeliverPyFirstOnline ==
    last.op \in {"deliver", "dispatch_group"} \/ C30_FirstOnlineAssistant

----------------------------------------------------------------------------
(* Properties of the traced broadcast *)

\* C31: when a message is expanded for broadcast (for stations@everywhere,
\* everyone@everywhere or name@anywhere), no station or bot in its traces is
\* a target of a copy
C31_TracedNeverTarget ==
    last.op \in {"broadcast", "broadcast_reliable"} =>
        NewTargets \cap Range(last.arrived.traces) = {}

\* broadcast_reliable_message alone leaves the traced out
ReliableLeavesTracedOut ==
    last.op = "broadcast_reliable" => NewTargets \cap Range(last.arrived.traces) = {}

\* C32: a broadcast expansion hands no copy to the dispatcher for the sender
\* of the message or for the local station
C32_NeverSenderNorStation ==
    last.op \in {"broadcast", "broadcast_reliable"} =>
        /\ last.arrived.sender \notin NewTargets
        /\ LocalStation \notin NewTargets

\* the neighbor sends to everyone: no copy goes back to the neighbor and none
\* to this station, though both are written into the recipients
C32_Witness ==
    /\ last.op = "broadcast"
    /\ last.arrived.sender = Neighbor /\ last.arrived.receiver = EVERYONE
    /\ last.arrived.recipients = {}
    /\ heap[last.msg].recipients = {LocalStation, Neighbor}
    /\ NewTargets = {}

----------------------------------------------------------------------------
(* Properties of the roaming *)

\* the sessions bound to the identifier that were active before the last step
WereActive(identifier) ==
    {s \in Sessions : last.pre.id[s] = identifier /\ last.pre.active[s]}

\* the station the receiver of the last message roams on
RoamingOn ==
    IF last.arrived.receiver \in LoginKeys THEN last.pre.logins[last.arrived.receiver]
    ELSE None

\* C33: a message redirected for a user who roams on another station goes to
\* exactly one active session of that station when there is one, and then it
\* gets no target field and no session of the bridge gets it; only when there
\* is none the target field is set to the receiver and the message goes to one
\* session bound to the ID of this station, when there is one
C33_NeighborThenBridge ==
    (last.op = "roam" /\ RoamingOn \notin {None, LocalStation}) =>
        IF WereActive(RoamingOn) # {}
        THEN /\ last.ret
             /\ Cardinality(PushedTo) = 1
             /\ PushedTo \subseteq WereActive(RoamingOn)
             /\ heap[last.msg].target = None
        ELSE /\ heap[last.msg].target = last.arrived.receiver
             /\ last.ret = (WereActive(LocalStation) # {})
             /\ PushedTo \subseteq WereActive(LocalStation)
             /\ Cardinality(PushedTo) = (IF WereActive(LocalStation) # {} THEN 1 ELSE 0)

\* two sessions of the neighbor are active: one of them gets the message
C33_Witness ==
    /\ last.op = "roam" /\ RoamingOn = Neighbor
    /\ WereActive(Neighbor) = Sessions
    /\ Cardinality(PushedTo) = 1
    /\ heap[last.msg].target = None

\* the neighbor is away and the bridge takes the message with its target
RoamedViaBridge ==
    /\ last.op = "roam" /\ RoamingOn = Neighbor
    /\ WereActive(Neighbor) = {} /\ WereActive(LocalStation) # {}
    /\ PushedTo # {}
    /\ heap[last.msg].target = Alice

\* C40: after a redirect the message carries a target field only if it was
\* handed to a session of the bridge; a redirect that fails directly and via
\* the bridge leaves the message, and its copy in the offline store, as it was
C40_TargetOnlyWithBridge ==
    (last.op \in {"roam", "deliver"} /\ heap[last.msg].target # None) =>
        PushedTo \cap WereActive(LocalStation) # {}

----------------------------------------------------------------------------
(* Properties of the octopus *)

\* C34: the octopus forwards a message only to peers that are not among its
\* recipients, so that over all hops no peer is sent the same message twice;
\* a message with a neighbor field is forwarded to that neighbor or to nobody
C34_NoPeerTwice ==
    /\ \A i, j \in 1..Len(dispatched) :
          (dispatched[i].msg = dispatched[j].msg
              /\ dispatched[i].receiver = dispatched[j].receiver) => i = j
    /\ last.op = "outgo" =>
          /\ NewTargets \cap last.arrived.recipients = {}
          /\ last.arrived.neighbor # None => NewTargets \subseteq {last.arrived.neighbor}

\* the second edge is connected to both peers and forwards to the one that
\* has not got the message yet
C34_Witness ==
    /\ last.op = "outgo"
    /\ Len(dispatched) = 2
    /\ dispatched[1].msg = dispatched[2].msg
    /\ dispatched[1].receiver = Neighbor /\ dispatched[2].receiver = Neighbor3
    /\ last.arrived.recipients = {Neighbor}

----------------------------------------------------------------------------
(* Properties of the dispatcher *)

\* how many times o is in the sequence
RECURSIVE Times(_, _)
Times(seq, o) ==
    IF seq = <<>> THEN 0
    ELSE (IF Head(seq) = o THEN 1 ELSE 0) + Times(Tail(seq), o)

\* o is with the dispatcher once: in the hands of a thread that is about to
\* append it, in the list, or taken out by the loop
HeldOnce(o) ==
    Cardinality({t \in Threads : dispatcher.calling[t] = <<o>>})
        + Times(dispatcher.messages, o) + Times(dispatcher.taken, o) = 1

\* the loop takes the messages out in the order in which they were appended
TakenInOrder == dispatcher.taken \o dispatcher.messages = dispatcher.appended

\* the i-th message that was passed to deliver, when there is one
IsPassed(i) == i <= Len(dispatcher.passed)
IsTaken(i) == IF IsPassed(i) THEN Times(dispatcher.taken, dispatcher.passed[i]) = 1 ELSE FALSE

\* C35: every message passed to Dispatcher.deliver is appended to the list
\* and later dispatched by the background loop, once, in the order of arrival,
\* whatever the interleaving of the threads that call deliver
C35_DispatchedOnceInOrder ==
    /\ [](\A i \in 1..Len(dispatcher.passed) : HeldOnce(dispatcher.passed[i]))
    /\ []TakenInOrder
    /\ \A i \in 1..MaxPassed : [](IsPassed(i) => <>IsTaken(i))

\* what holds for the messages that are not from a station
SenderNotStation(i) ==
    IF IsPassed(i) THEN IdType(heap[dispatcher.passed[i]].sender) # "STATION" ELSE FALSE
UserMessagesHeldOnceInOrder ==
    /\ \A i \in 1..Len(dispatcher.passed) :
          SenderNotStation(i) => HeldOnce(dispatcher.passed[i])
    /\ TakenInOrder
UserMessagesTaken == \A i \in 1..MaxPassed : [](SenderNotStation(i) => <>IsTaken(i))

----------------------------------------------------------------------------
(* Properties of the reload beside other threads *)

\* C36: the loop of load_cached_messages comes to an end whatever is stored
\* and whatever is saved and removed for the receiver meanwhile; a loop that
\* was left had nothing remaining, or had counted more than CACHE_LIMIT
\* messages
C36_ReloadTerminates ==
    /\ [](loading["c1"].on => <>(~loading["c1"].on))
    /\ [](~loading["c1"].on =>
            \/ loading["c1"].remaining <= 0
            \/ loading["c1"].total > CACHE_LIMIT
            \/ loading["c1"] = NoRound)

\* the loop went into a second round for 1025 stored messages, one of them
\* was removed meanwhile, and the second round found nothing remaining
C36_Witness ==
    /\ last.op = "reload_page"
    /\ ~loading["c1"].on
    /\ loading["c1"].total = 2 * LIMIT
    /\ loading["c1"].remaining <= 0
    /\ calls = 1

----------------------------------------------------------------------------
(* Properties of the login command *)

\* the login command named another station, or another user than the one the
\* session is bound to
RoamingOrForwarded ==
    \/ last.roaming # LocalStation
    \/ last.sender # last.pre.id[last.s]

\* C37: a login command changes the active flag of the session it arrives in
\* only when it names this station and the user the session is bound to; a
\* roaming or forwarded command leaves flag and identifier as they were and
\* gets no response
C37_LoginActivatesOwnSessionOnly ==
    last.op = "login" =>
        /\ sessActive # last.pre.active => ~RoamingOrForwarded
        /\ RoamingOrForwarded =>
              /\ sessActive = last.pre.active
              /\ sessId = last.pre.id
              /\ last.responses = <<>>

\* Alice's command for the neighbor station arrived in her active session
\* and was stored
C37_Witness ==
    /\ last.op = "login"
    /\ last.sender = Alice /\ last.roaming = Neighbor
    /\ last.pre.id[last.s] = Alice /\ last.pre.active[last.s]
    /\ logins[Alice] = Neighbor
    /\ last.responses = <<>>

\* no login command changes the active flag of a session: the assignment
\* that should do it raises
LoginLeavesActive == last.op = "login" => sessActive = last.pre.active

----------------------------------------------------------------------------
(* Properties of the sending *)

\* the messages waiting in the queue of a session
Waiting(s) == Len(QueueOrder(sessQueue[s]))

\* C38: a message leaves the queue of a session for the gate, and is reported
\* sent, only in a step in which the session is active
C38_SendsOnlyWhenActive ==
    [][\A s \in Sessions :
          \/ Waiting(s)' < Waiting(s)
          \/ (Len(sent') > Len(sent) /\ sent'[Len(sent')].s = s)
          => sessActive[s] /\ sessActive'[s]]_vars

\* the second session sent a message while the first, inactive, kept a
\* message waiting
C38_Witness ==
    /\ last.op = "sent" /\ last.s = "c2"
    /\ ~sessActive["c1"]
    /\ Waiting("c1") > 0

----------------------------------------------------------------------------
(* Properties of the limit of the offline store *)

\* C39: after a save the list of the receiver never holds more than
\* CACHE_LIMIT messages; a save of a new message into a full list returns
\* true and drops from the head
C39_NeverOverLimit ==
    [][last'.op = "save" =>
          /\ Len(store'[Alice]) <= CACHE_LIMIT
          /\ (Len(store[Alice]) >= CACHE_LIMIT /\ store' # store) =>
                /\ last'.ret
                /\ store'[Alice][1] > store[Alice][1]]_vars

\* what the list holds at most, and what a save into a full list does
NeverOverLimitPlusOne ==
    [][last'.op = "save" =>
          /\ Len(store'[Alice]) <= CACHE_LIMIT + 1
          /\ (Len(store[Alice]) > CACHE_LIMIT /\ store' # store) =>
                /\ last'.ret
                /\ store'[Alice][1] > store[Alice][1]]_vars

====
